---- MODULE Spec2Model ----
(***************************************************************************)
(* Drag-to-reorder engine of apple-home-dashboard                          *)
(* (src/src/utils/DragAndDropManager.ts), modelled as a state machine.     *)
(*                                                                         *)
(* The sensing library (SortableJS) and the browser are the environment:   *)
(* they deliver onStart / onEnd, reorder DOM nodes during a drag, dispatch *)
(* pointer-move events on the document and run animation frames.  The     *)
(* handlers the manager registers are translated from the source.          *)
(***************************************************************************)
EXTENDS Integers, Sequences, FiniteSets, TLC

(***************************************************************************)
(* Bounds of the model.                                                    *)
(***************************************************************************)
\* Number of drag sessions the library starts in one behaviour.
MaxDrags == 2
\* Number of times the library may deliver onEnd again after a session ended.
MaxEndRepeats == 1
\* Number of times the host attaches a root without detaching it in between.
MaxAttaches == 2

(***************************************************************************)
(* The DOM the managers are attached to.                                   *)
(*   manager 1 (context "home") is attached to a root holding one card     *)
(*   carousel and to the chip row rendered by AppleChips;                  *)
(*   manager 2 (context "room") is attached to a root holding one grid.    *)
(***************************************************************************)
Managers == {1, 2}
Containers == {"grid", "carousel", "chips"}
\* The root elements the host passes to enableDragAndDrop / disableDragAndDrop.
Roots == {"page", "chipsHost", "room"}

NoClone == "none"
NoItem == "none"

\* Names of the Sortable instances created on one element; NoInstance is
\* the absence of a map entry.
InstanceIds == {1, 2}
NoInstance == 0

\* The services that notify listeners, and the callbacks the host registers.
Notifiers == {"dashboard", "rtl", "registry"}
Callbacks == {"a", "b"}
\* The callbacks that may throw.
Throwers == {"b"}
\* Dashboard keys the strategy registered, languages of the hass locale.
DashboardKeys == {"apple-home", "tablet"}
Languages == {"en", "he"}
\* hass instances (each with a connection), and the subscribe() calls of
\* RegistrySubscriptionManager in the order they are made.
Hasses == {1, 2}
Tasks == {1, 2}

\* Which manager's enableDragAndDrop discovers the container.
Manager(c) == IF c = "grid" THEN 2 ELSE 1

\* The querySelectorAll branch of enableDragAndDrop that picks the container.
Kind(c) ==
  CASE c = "grid" -> "grid"
    [] c = "carousel" -> "carousel"
    [] c = "chips" -> "chips"

\* new DragAndDropManager(saveOrderCallback, customizationManager?, context)
HasCustomizationManager(m) == m = 1
Context(m) == IF m = 1 THEN "home" ELSE "room"

\* CSS classes of the container element.  The chip row is the element
\* AppleChips.generateHTML renders: class="chips-grid" and nothing else.
Classes(c) ==
  CASE c = "grid" -> {"area-entities"}
    [] c = "carousel" -> {"carousel-grid"}
    [] c = "chips" -> {"chips-grid"}

\* dataset.areaId / dataset.sectionType of the container ("" when absent).
DataAreaId(c) ==
  CASE c = "grid" -> "kitchen"
    [] c = "carousel" -> "living_room"
    [] c = "chips" -> "chips"

DataSectionType(c) ==
  CASE c = "carousel" -> "cameras"
    [] c = "chips" -> "chips"
    [] OTHER -> ""

\* The draggable children of each container, in rendered order.
RenderedOrder(c) ==
  CASE c = "grid" -> <<"A", "B", "C">>
    [] c = "carousel" -> <<"cam1", "cam2">>
    [] c = "chips" -> <<"climate", "lights", "security">>

Range(s) == {s[i] : i \in 1..Len(s)}
Items(c) == Range(RenderedOrder(c))

\* dataset.entityId of a card wrapper ("" when the attribute is absent).
DataEntityId(c, it) ==
  CASE c = "carousel" /\ it = "cam2" -> ""
    [] c = "carousel" -> "camera." \o it
    [] c = "chips" -> it
    [] OTHER -> "light." \o it

\* entity property of the wrapper's apple-home-card element ("" when none).
CardEntity(c, it) == IF Kind(c) = "chips" THEN "" ELSE
  IF c = "carousel" THEN "camera." \o it ELSE "light." \o it

\* dataset.chipId of a chip wrapper (AppleChips writes data-chip-id).
DataChipId(c, it) == IF Kind(c) = "chips" THEN it ELSE ""

\* Card wrappers render an .entity-controls element; chip wrappers do not.
HasEntityControls(c, it) == Kind(c) # "chips"

\* Cards whose apple-home-card exposes reloadCameraImage.
HasReloadCameraImage(c, it) == c = "carousel"

(***************************************************************************)
(* Geometry of the scroll containers and the pointer positions delivered   *)
(* by the browser.  Lengths are CSS pixels; scroll speeds and scroll       *)
(* positions are kept in units of 1/Scale pixel so that the speeds the     *)
(* code computes in floating point are exact integers here.                *)
(***************************************************************************)
Scale == 200
RectLeft == 0
RectRight == 300
\* scrollWidth - clientWidth of the scroll container, in pixels.
MaxScrollPx == 10
\* Pointer positions of the move events: outside both edge zones, and on the
\* right boundary of the scroll container.
PointerXs == {150, 300}
\* Pointer positions of the move events of SpecScroll: in the left edge
\* zone, outside both zones, and two positions in the right edge zone.
ScrollXs == {10, 150, 290, 293}
\* Pointer positions of the move events of SpecStill: half-way into the
\* left and into the right edge zone.
StillXs == {50, 250}
\* The positions whose stored velocities are recorded for comparison.
ComparedXs == {290, 293}
\* Pointer positions at which a gesture is recognised as a drag.
StartXs == {150}
\* The items the user picks up: the first card of a grid or carousel, the
\* last chip of the chip row.
Grabbed(c) == IF c = "chips" THEN {"security"} ELSE {RenderedOrder(c)[1]}

\* const scrollZone / maxSpeed / minSpeed of setupCarouselSortable
CarouselScrollZone == 100
CarouselMaxSpeed == 15
CarouselMinSpeed == 3
\* const scrollZone / maxSpeed / minSpeed of enableChipsCarousel
ChipsScrollZone == 80
ChipsMaxSpeed == 12
ChipsMinSpeed == 2

Abs(n) == IF n < 0 THEN -n ELSE n
Min(a, b) == IF a < b THEN a ELSE b
Max(a, b) == IF a < b THEN b ELSE a

VARIABLES
  isReordering,      \* static DragAndDropManager.isReordering
  globalStylesInjected, \* static DragAndDropManager.globalStylesInjected
  styleNodes,        \* style#sortable-drag-styles elements in document.head
  constructed,       \* the managers constructed so far
  sortableInstances, \* per container: the instance this.sortableInstances maps it to
  liveInstances,     \* library: per container, its non-destroyed Sortable instances
  attachCalls,       \* host: per root, its enableDragAndDrop calls since the
                     \* root was last detached (kept by the host of
                     \* SpecRegistry only)
  dragVisual,        \* per manager: this.dragVisual (container it was built for)
  bodyClones,        \* per container: .drag-visual-clone nodes in document.body
  cloneX,            \* per manager: x the clone was last centred on
  cloneContent,      \* per manager: what the clone node holds
  cameraRegion,      \* what the card of the first camera currently renders
  domOrder,          \* per container: draggable children in DOM order
  draggingClass,     \* per container: items carrying the 'dragging' class
  controlsHidden,    \* per container: items whose .entity-controls is hidden
  listening,         \* per container: is its onMove registered on document
  scroll,            \* per container: closure scroll state and scrollLeft
  userSelectNone,    \* document.body.style.userSelect = 'none'
  session,           \* library: "idle" or "dragging", per container
  evtItem,           \* library: evt.item of the current / last session
  orderAtStart,      \* library: DOM order when the current drag started
  cancelled,         \* library: the last onEnd was a cancel (item put back)
  endRepeats,        \* library: onEnd deliveries after the session ended
  saveCalls,         \* host: persistence calls since the container's onStart
  lastSaved,         \* host: arguments of the last persistence call
  cameraReloads,     \* host: reloadCameraImage calls since onStart
  callbackThrows,    \* host: a persistence callback throws when it is called
  escapes,           \* library: exceptions that left the container's onEnd
  observed,          \* per container: <<x, |velocity stored|, |velocity
                     \* computed|>> of the moves of this session to ComparedXs
  drags,             \* library: drag sessions started so far
  dashboardStateManager,       \* the DashboardStateManager singleton
  rtlHelper,                   \* the static fields of RTLHelper
  registrySubscriptionManager, \* the RegistrySubscriptionManager singleton,
                               \* its subscriptions, timers and calls
  listeners,         \* per service: its listeners Set, in insertion order
  throwing,          \* host: the callbacks that throw when they are called
  heard,             \* host: the last notification of a service
  appleChips         \* the AppleChips component of the chip row

\* The variables of DragAndDropManager and its library, and those of the
\* three services.
dragAndDrop == <<isReordering, globalStylesInjected, styleNodes, constructed,
          sortableInstances, liveInstances, attachCalls, dragVisual,
          bodyClones, cloneX, cloneContent, cameraRegion, domOrder,
          draggingClass, controlsHidden,
          listening, scroll, userSelectNone, session, evtItem, orderAtStart,
          cancelled, endRepeats, saveCalls, lastSaved, cameraReloads,
          callbackThrows, escapes, observed, drags>>
services == <<dashboardStateManager, rtlHelper, registrySubscriptionManager,
              listeners, throwing, heard, appleChips>>

vars == <<dragAndDrop, services>>

\* What only the constructor writes, and what only the registry writes.
process == <<globalStylesInjected, styleNodes, constructed>>
registry == <<sortableInstances, liveInstances, attachCalls>>

(***************************************************************************)
(* Visual Clone Builder.  A visual state is the record                     *)
(*   [dragVisual, bodyClones, cloneX, cloneContent]                        *)
(* of the four variables the builder touches.  The content of a clone is   *)
(* the record [tag, src, icon]: an img element with its source, an ha-icon *)
(* placeholder with its icon, a structural clone of the card or chip, or   *)
(* nothing.  A camera region is the record                                 *)
(*   [cameraContainer, images, cameraIconUnavailable, cameraIconNoSnapshot]*)
(* of what innerCard.querySelector finds; images are the img elements of   *)
(* the container in document order, each [opacity0, src].                  *)
(***************************************************************************)
Visual == [dragVisual |-> dragVisual, bodyClones |-> bodyClones, cloneX |-> cloneX,
           cloneContent |-> cloneContent]

NoContent == [tag |-> "none", src |-> "", icon |-> ""]
ImgContent(src) == [tag |-> "img", src |-> src, icon |-> ""]
IconContent(icon) == [tag |-> "ha-icon", src |-> "", icon |-> icon]
ClonedContent == [tag |-> "clone", src |-> "", icon |-> ""]

\* A card that is no camera card.
NoCameraRegion ==
  [cameraContainer |-> FALSE, images |-> <<>>,
   cameraIconUnavailable |-> FALSE, cameraIconNoSnapshot |-> FALSE]

\* What the camera card renders: the container with up to two img elements
\* (each hidden or not, with a source or "" for none), or the unavailable
\* icon, or the no-snapshot icon.
CameraRegions ==
  LET Imgs == [opacity0 : BOOLEAN, src : {"", "snapshot.jpg"}]
      ImgLists == {<<>>} \cup [1..1 -> Imgs] \cup [1..2 -> Imgs]
  IN {[NoCameraRegion EXCEPT !.cameraContainer = TRUE, !.images = l] : l \in ImgLists}
     \cup {[NoCameraRegion EXCEPT !.cameraIconUnavailable = TRUE],
           [NoCameraRegion EXCEPT !.cameraIconNoSnapshot = TRUE]}

\* The camera card as first rendered: one visible snapshot.
RenderedCamera ==
  [NoCameraRegion EXCEPT !.cameraContainer = TRUE,
     !.images = <<[opacity0 |-> FALSE, src |-> "snapshot.jpg"]>>]

\* What querySelector finds in the card of item it of container c.
CameraRegionOf(c, it) ==
  IF c = "carousel" /\ it = RenderedOrder(c)[1] THEN cameraRegion ELSE NoCameraRegion

\* for (const img of images) if (opacity !== '0' && img.src) { visibleImgSrc
\* = img.src; break }
RECURSIVE visibleImgSrc(_, _)
visibleImgSrc(images, i) ==
  IF i > Len(images) THEN ""
  ELSE IF ~images[i].opacity0 /\ images[i].src # "" THEN images[i].src
  ELSE visibleImgSrc(images, i + 1)

\* A slip that copies the first img element whatever it shows.
createCameraDragVisualFirstImg(r) ==
  IF r.cameraContainer
    THEN IF Len(r.images) > 0 THEN ImgContent(r.images[1].src)
         ELSE IconContent("mdi:camera")
  ELSE IF r.cameraIconUnavailable THEN IconContent("mdi:camera-off")
  ELSE IF r.cameraIconNoSnapshot THEN IconContent("mdi:camera")
  ELSE NoContent

\* createCameraDragVisual(innerCard, cameraContainer, cameraIconUnavailable,
\* cameraIconNoSnapshot): the image or placeholder put into the container
\* (the entity name overlay is left out).
createCameraDragVisual(r) ==
  IF r.cameraContainer
    THEN IF visibleImgSrc(r.images, 1) # ""
           THEN ImgContent(visibleImgSrc(r.images, 1))
           ELSE IconContent("mdi:camera")
  ELSE IF r.cameraIconUnavailable THEN IconContent("mdi:camera-off")
  ELSE IF r.cameraIconNoSnapshot THEN IconContent("mdi:camera")
  ELSE NoContent

\* The content createDragVisual gives the clone of a card with region r.
CardContent(r) ==
  IF r.cameraContainer \/ r.cameraIconUnavailable \/ r.cameraIconNoSnapshot
    THEN createCameraDragVisual(r)
    ELSE ClonedContent

\* removeDragVisual(): detach the node this.dragVisual refers to, drop the
\* reference.
removeDragVisual(v, m) ==
  LET c == v.dragVisual[m] IN
  IF c # NoClone /\ v.bodyClones[c] > 0
    THEN [v EXCEPT !.bodyClones[c] = @ - 1, !.dragVisual[m] = NoClone,
                   !.cloneX[m] = 0, !.cloneContent[m] = NoContent]
    ELSE [v EXCEPT !.dragVisual[m] = NoClone, !.cloneX[m] = 0,
                   !.cloneContent[m] = NoContent]

\* createDragVisual(element, x, y, isChip): remove the manager's previous
\* clone, build a new node for item it of container c centred on x and
\* append it to document.body.
createDragVisual(v, m, c, it, x) ==
  LET r == removeDragVisual(v, m) IN
  [dragVisual |-> [r.dragVisual EXCEPT ![m] = c],
   bodyClones |-> [r.bodyClones EXCEPT ![c] = @ + 1],
   cloneX |-> [r.cloneX EXCEPT ![m] = x],
   cloneContent |-> [r.cloneContent EXCEPT ![m] =
     IF Kind(c) = "chips" THEN ClonedContent ELSE CardContent(CameraRegionOf(c, it))]]

\* updateDragVisual(x, y): re-centre the clone, if there is one.
updateDragVisual(v, m, x) ==
  IF v.dragVisual[m] = NoClone THEN v ELSE [v EXCEPT !.cloneX[m] = x]

\* Number of .drag-visual-clone nodes attached to the document.
RECURSIVE SumOver(_, _)
SumOver(f, S) ==
  IF S = {} THEN 0
  ELSE LET e == CHOOSE e \in S : TRUE IN f[e] + SumOver(f, S \ {e})

CloneCount == SumOver(bodyClones, Containers)

(***************************************************************************)
(* Edge Auto-Scroll Controller.  A scroll state is the record              *)
(*   [speed, scrollAnimationId, pendingFrames, scrollLeft]                 *)
(* speed: currentScrollSpeed / scrollSpeed of the closure, in 1/Scale px   *)
(* scrollAnimationId: "null" or "frame" (a requestAnimationFrame id)       *)
(* pendingFrames: callbacks of this closure the browser still has to run   *)
(* scrollLeft: scrollContainer.scrollLeft, in 1/Scale px                   *)
(***************************************************************************)
IdleScroll == [speed |-> 0, scrollAnimationId |-> "null", pendingFrames |-> 0,
               scrollLeft |-> 0]

MaxScroll == MaxScrollPx * Scale

\* requestAnimationFrame(cb) and cancelAnimationFrame(id)
requestAnimationFrame(s) ==
  [s EXCEPT !.scrollAnimationId = "frame", !.pendingFrames = @ + 1]

cancelAnimationFrame(s) ==
  [s EXCEPT !.pendingFrames = IF @ > 0 THEN @ - 1 ELSE 0]

\* scrollContainer.scrollLeft += speed (the browser clamps the position)
ScrollBy(s) ==
  [s EXCEPT !.scrollLeft = Max(0, Min(MaxScroll, @ + s.speed))]

\* A slip that scrolls towards the right in both zones.
EdgeSpeedUnsigned(s, x, zone, maxSpeed, minSpeed) ==
  LET distFromLeft == x - RectLeft
      distFromRight == RectRight - x
      mag(d) == minSpeed * Scale + ((zone - d) * (maxSpeed - minSpeed) * Scale) \div zone
  IN IF distFromLeft < zone /\ distFromLeft >= 0 /\ s.scrollLeft > 0
       THEN mag(distFromLeft)
     ELSE IF distFromRight < zone /\ distFromRight >= 0 /\ s.scrollLeft < MaxScroll
       THEN mag(distFromRight)
     ELSE 0

\* A slip that takes ratio = dist/zone: fastest at the outer edge of the zone.
EdgeSpeedInverted(s, x, zone, maxSpeed, minSpeed) ==
  LET distFromLeft == x - RectLeft
      distFromRight == RectRight - x
      mag(d) == minSpeed * Scale + (d * (maxSpeed - minSpeed) * Scale) \div zone
  IN IF distFromLeft < zone /\ distFromLeft >= 0 /\ s.scrollLeft > 0
       THEN -mag(distFromLeft)
     ELSE IF distFromRight < zone /\ distFromRight >= 0 /\ s.scrollLeft < MaxScroll
       THEN mag(distFromRight)
     ELSE 0

\* A slip that scales the maximum speed and forgets the minimum speed.
EdgeSpeedNoMinimum(s, x, zone, maxSpeed, minSpeed) ==
  LET distFromLeft == x - RectLeft
      distFromRight == RectRight - x
      mag(d) == ((zone - d) * maxSpeed * Scale) \div zone
  IN IF distFromLeft < zone /\ distFromLeft >= 0 /\ s.scrollLeft > 0
       THEN -mag(distFromLeft)
     ELSE IF distFromRight < zone /\ distFromRight >= 0 /\ s.scrollLeft < MaxScroll
       THEN mag(distFromRight)
     ELSE 0

\* The speed both updateScrollSpeed closures compute: 0 outside the zones,
\* -(min + ratio*(max-min)) in the left zone, +(min + ratio*(max-min)) in
\* the right zone, with ratio = 1 - dist/zone.
EdgeSpeed(s, x, zone, maxSpeed, minSpeed) ==
  LET distFromLeft == x - RectLeft
      distFromRight == RectRight - x
      canScrollLeft == s.scrollLeft > 0
      canScrollRight == s.scrollLeft < MaxScroll
      mag(d) == minSpeed * Scale + ((zone - d) * (maxSpeed - minSpeed) * Scale) \div zone
  IN IF distFromLeft < zone /\ distFromLeft >= 0 /\ canScrollLeft
       THEN -mag(distFromLeft)
     ELSE IF distFromRight < zone /\ distFromRight >= 0 /\ canScrollRight
       THEN mag(distFromRight)
     ELSE 0

\* A slip that leaves out the test for the ends of the scroll range.
animateScrollPastEnd(s) ==
  IF s.speed = 0 THEN [s EXCEPT !.scrollAnimationId = "null"]
  ELSE requestAnimationFrame(ScrollBy(s))

\* setupCarouselSortable: animateScroll (one animation frame)
animateScroll(s) ==
  IF s.speed = 0 THEN [s EXCEPT !.scrollAnimationId = "null"]
  ELSE IF (s.speed < 0 /\ s.scrollLeft <= 0) \/ (s.speed > 0 /\ s.scrollLeft >= MaxScroll)
    THEN [s EXCEPT !.speed = 0, !.scrollAnimationId = "null"]
  ELSE requestAnimationFrame(ScrollBy(s))

\* A slip that requests a frame whenever the new speed is not 0.
updateScrollSpeedCarouselUnguarded(s, x) ==
  LET newSpeed == EdgeSpeed(s, x, CarouselScrollZone, CarouselMaxSpeed, CarouselMinSpeed) IN
  IF 2 * Abs(newSpeed - s.speed) > Scale \/ (newSpeed = 0 /\ s.speed # 0)
    THEN LET t == [s EXCEPT !.speed = newSpeed] IN
         IF t.speed # 0 THEN requestAnimationFrame(t) ELSE t
    ELSE s

\* setupCarouselSortable: updateScrollSpeed(x)
updateScrollSpeedCarousel(s, x) ==
  LET newSpeed == EdgeSpeed(s, x, CarouselScrollZone, CarouselMaxSpeed, CarouselMinSpeed) IN
  IF 2 * Abs(newSpeed - s.speed) > Scale \/ (newSpeed = 0 /\ s.speed # 0)
    THEN LET t == [s EXCEPT !.speed = newSpeed] IN
         IF t.speed # 0 /\ t.scrollAnimationId = "null"
           THEN requestAnimationFrame(t) ELSE t
    ELSE s

\* A slip that requests the next frame whatever the speed is.
smoothScrollForever(s) ==
  IF (s.speed < 0 /\ s.scrollLeft <= 0) \/ (s.speed > 0 /\ s.scrollLeft >= MaxScroll)
    THEN [s EXCEPT !.speed = 0, !.scrollAnimationId = "null"]
    ELSE requestAnimationFrame(ScrollBy(s))

\* enableChipsCarousel: smoothScroll (one animation frame)
smoothScroll(s) ==
  IF s.speed # 0
    THEN IF (s.speed < 0 /\ s.scrollLeft <= 0) \/ (s.speed > 0 /\ s.scrollLeft >= MaxScroll)
           THEN [s EXCEPT !.speed = 0, !.scrollAnimationId = "null"]
           ELSE requestAnimationFrame(ScrollBy(s))
    ELSE [s EXCEPT !.scrollAnimationId = "null"]

\* A slip that has no else branch: outside the zones the speed is kept.
updateScrollSpeedChipsNoReset(s, x) ==
  LET e == EdgeSpeed(s, x, ChipsScrollZone, ChipsMaxSpeed, ChipsMinSpeed)
      t == IF e # 0 THEN [s EXCEPT !.speed = e] ELSE s
  IN IF t.speed # 0 /\ t.scrollAnimationId = "null"
       THEN requestAnimationFrame(t) ELSE t

\* enableChipsCarousel: updateScrollSpeed(x)
updateScrollSpeedChips(s, x) ==
  LET t == [s EXCEPT !.speed = EdgeSpeed(s, x, ChipsScrollZone, ChipsMaxSpeed, ChipsMinSpeed)] IN
  IF t.speed # 0 /\ t.scrollAnimationId = "null"
    THEN requestAnimationFrame(t) ELSE t

\* stopScrolling() of both closures
stopScrolling(s) ==
  LET t == [s EXCEPT !.speed = 0] IN
  IF t.scrollAnimationId # "null"
    THEN [cancelAnimationFrame(t) EXCEPT !.scrollAnimationId = "null"]
    ELSE t

(***************************************************************************)
(* Persistence: the host callbacks.  The host records how often a          *)
(* container's handlers called it since the container's last onStart and   *)
(* the arguments of the last call.                                         *)
(***************************************************************************)
NoPage == [clones |-> 0, dragVisual |-> NoClone, listening |-> FALSE,
           hidden |-> {}, speed |-> 0, scrollAnimationId |-> "null",
           pendingFrames |-> 0]

NoCall == [fn |-> "none", areaId |-> "", sectionType |-> "", order |-> <<>>,
           context |-> "", threw |-> FALSE, page |-> NoPage]

\* A slip that calls the host as the first statement of onEnd.
pageBeforeCleanup(c) ==
  [clones |-> bodyClones[c], dragVisual |-> dragVisual[Manager(c)],
   listening |-> listening[c], hidden |-> controlsHidden[c],
   speed |-> scroll[c].speed,
   scrollAnimationId |-> scroll[c].scrollAnimationId,
   pendingFrames |-> scroll[c].pendingFrames]

\* What the host finds of container c's session when onEnd calls it: the
\* call is the last statement of onEnd, after every other assignment.
pageAtCall(c) ==
  [clones |-> bodyClones'[c], dragVisual |-> dragVisual'[Manager(c)],
   listening |-> listening'[c], hidden |-> controlsHidden'[c],
   speed |-> scroll'[c].speed,
   scrollAnimationId |-> scroll'[c].scrollAnimationId,
   pendingFrames |-> scroll'[c].pendingFrames]

Host == [saveCalls |-> saveCalls, lastSaved |-> lastSaved]

Called(h, c, call) ==
  [saveCalls |-> [h.saveCalls EXCEPT ![c] = @ + 1],
   lastSaved |-> [h.lastSaved EXCEPT ![c] = [call EXCEPT !.threw = callbackThrows,
                                                  !.page = pageAtCall(c)]]]

\* this.saveOrderCallback(areaId)
saveOrderCallback(h, c, areaId) ==
  Called(h, c, [NoCall EXCEPT !.fn = "saveOrderCallback", !.areaId = areaId])

\* wrappers.forEach(w => { const id = Id(w); if (id) newOrder.push(id) })
NonEmptyId(id) == id # ""
CollectIds(ids) == SelectSeq(ids, NonEmptyId)

\* dataset.chipId || dataset.entityId
ChipIdOf(c, it) == IF DataChipId(c, it) # "" THEN DataChipId(c, it) ELSE DataEntityId(c, it)

\* A slip that reads dataset.entityId only.
EntityIdFromDatasetOnly(c, it) == DataEntityId(c, it)

\* dataset.entityId, else the apple-home-card's entity
EntityIdOf(c, it) == IF DataEntityId(c, it) # "" THEN DataEntityId(c, it) ELSE CardEntity(c, it)

\* updateChipsOrder(chipsGrid), reading the DOM order `order`
updateChipsOrder(h, c, order) ==
  IF HasCustomizationManager(Manager(c))
    THEN Called(h, c, [NoCall EXCEPT !.fn = "saveChipsOrder",
                                     !.order = CollectIds(
                         [i \in 1..Len(order) |-> ChipIdOf(c, order[i])])])
    ELSE h

\* updateCarouselConfiguration(carousel), reading the DOM order `order`
updateCarouselConfiguration(h, c, order) ==
  IF DataAreaId(c) = "" \/ DataSectionType(c) = "" THEN h
  ELSE IF HasCustomizationManager(Manager(c))
    THEN Called(h, c, [fn |-> "updateCarouselOrderWithContext",
                       areaId |-> DataAreaId(c),
                       sectionType |-> DataSectionType(c),
                       order |-> CollectIds(
                         [i \in 1..Len(order) |-> EntityIdOf(c, order[i])]),
                       context |-> Context(Manager(c)),
                       threw |-> FALSE, page |-> NoPage])
    ELSE h

\* evt.item.closest('.carousel-grid.chips') finds an element
ClosestCarouselGridChips(c) == {"carousel-grid", "chips"} \subseteq Classes(c)

\* evt.item.closest('.carousel-grid') finds an element
ClosestCarouselGrid(c) == "carousel-grid" \in Classes(c)

\* reconnectSingleCameraManager(wrapper)
reconnectSingleCameraManager(n, c, it) ==
  IF HasReloadCameraImage(c, it) THEN [n EXCEPT ![c] = @ + 1] ELSE n

(***************************************************************************)
(* Construction.  A process state is the record                            *)
(*   [globalStylesInjected, styleNodes].                                   *)
(***************************************************************************)
\* A slip that appends the stylesheet without looking at the flag.
injectGlobalStylesUnguarded(p) ==
  [p EXCEPT !.styleNodes = @ + 1, !.globalStylesInjected = TRUE]

\* injectGlobalStyles(): append style#sortable-drag-styles to document.head
\* unless the static flag says it was done.
injectGlobalStyles(p) ==
  IF p.globalStylesInjected THEN p
  ELSE [p EXCEPT !.styleNodes = @ + 1, !.globalStylesInjected = TRUE]

(***************************************************************************)
(* Listener notification, as DashboardStateManager, RTLHelper and          *)
(* RegistrySubscriptionManager do it.  The listeners of each are a Set in  *)
(* insertion order.  A notification is the record                          *)
(*   [by, args, called, errors, escaped]                                   *)
(* by: the service that notified                                           *)
(* args: the arguments passed to the listeners                             *)
(* called: the listeners called, in call order                             *)
(* errors: console.error lines written                                     *)
(* escaped: an exception left notifyListeners                              *)
(***************************************************************************)
NoNotification ==
  [by |-> "none", args |-> <<>>, called |-> <<>>, errors |-> 0, escaped |-> FALSE]

\* listeners.add(callback) / listeners.delete(callback)
SetAdd(ls, cb) == IF cb \in Range(ls) THEN ls ELSE Append(ls, cb)
SetDelete(ls, cb) == SelectSeq(ls, LAMBDA z : z # cb)

\* A slip that calls the listener outside try / catch.
callUnprotected(n, cb, throws) ==
  [n EXCEPT !.called = Append(@, cb), !.escaped = throws]

\* try { callback(...) } catch (error) { console.error(...) }
callProtected(n, cb, throws) ==
  [n EXCEPT !.called = Append(@, cb),
            !.errors = IF throws THEN @ + 1 ELSE @]

\* this.listeners.forEach(callback => ...), from the i-th listener on; an
\* exception that leaves the arrow function ends the iteration.
RECURSIVE forEach(_, _, _)
forEach(ls, i, n) ==
  IF i > Len(ls) \/ n.escaped THEN n
  ELSE forEach(ls, i + 1, callProtected(n, ls[i], ls[i] \in throwing))

\* notifyListeners(...args) of service by
notifyListeners(by, args) ==
  forEach(listeners[by], 1, [NoNotification EXCEPT !.by = by, !.args = args])

(***************************************************************************)
(* DashboardStateManager.  The fields of the singleton instance:           *)
(*   isActive, currentDashboardKey ("null" for null),                      *)
(*   registeredDashboardKeys, lastProcessedPath                            *)
(* the static field and the window:                                        *)
(*   instance: DashboardStateManager.instance is not null                  *)
(*   createdBy: who made the getInstance() call that constructed it        *)
(*   intercepted: window.__appleHomeDashboardHistoryIntercepted            *)
(*   wraps: how many wrappers are installed around history.pushState       *)
(*   deferred: the setTimeout(..., 0) callbacks of the wrapper not yet run *)
(*   pathname: window.location.pathname, as its sequence of segments       *)
(* and what the listeners can tell:                                        *)
(*   lastNotified: the arguments of the last notifyListeners call          *)
(*   repeated: some notifyListeners call had the arguments of the one      *)
(*     before it                                                           *)
(*   checked: handleNavigationChange() was the last operation              *)
(*   emit: the arguments of the notifyListeners call of the operation in   *)
(*     progress, <<>> for none                                             *)
(***************************************************************************)
\* No pathname equals the empty string lastProcessedPath starts with.
NeverProcessed == <<"">>
\* The pathnames the browser is at: /, /apple-home/home, /tablet and
\* /config/dashboard.
Paths == {<<>>, <<"apple-home", "home">>, <<"tablet">>, <<"config", "dashboard">>}
\* The setTimeout(..., 0) callbacks of the history wrapper that may be
\* pending at once.
MaxDeferred == 2

excludedKeys ==
  {"config", "developer-tools", "hacs", "dev-tools", "api", "logbook",
   "history", "profile", "media-browser", "energy", "map", "todo",
   "calendar", "auth", "_my_redirect"}

\* extractDashboardKey(path): path.match(/^\/([^\/]+)/), "null" for null
extractDashboardKey(path) ==
  IF path = <<>> THEN "null"
  ELSE IF path[1] \in excludedKeys THEN "null"
  ELSE path[1]

\* setupNavigationListeners(): history.pushState / replaceState are
\* wrapped unless the window flag says they are.
setupNavigationListeners(m) ==
  IF m.intercepted THEN m
  ELSE [m EXCEPT !.intercepted = TRUE, !.wraps = @ + 1]

\* The window before the module is loaded.
NoDashboardStateManager ==
  [isActive |-> FALSE, currentDashboardKey |-> "null",
   registeredDashboardKeys |-> {}, lastProcessedPath |-> NeverProcessed,
   instance |-> FALSE, createdBy |-> "none", intercepted |-> FALSE,
   wraps |-> 0, deferred |-> 0, pathname |-> <<>>,
   lastNotified |-> <<>>, repeated |-> FALSE, checked |-> FALSE,
   emit |-> <<>>]

\* DashboardStateManager.getInstance(), called by `by`: the constructor
\* runs if there is no instance.
getInstance(m, by) ==
  IF m.instance THEN m
  ELSE setupNavigationListeners(
         [m EXCEPT !.isActive = FALSE, !.currentDashboardKey = "null",
                   !.registeredDashboardKeys = {},
                   !.lastProcessedPath = NeverProcessed,
                   !.instance = TRUE, !.createdBy = by])

NewDashboardStateManager == getInstance(NoDashboardStateManager, "host")

\* this.notifyListeners(isActive, dashboardKey), on the manager
notified(m, args) ==
  [m EXCEPT !.emit = args, !.lastNotified = args,
            !.repeated = @ \/ m.lastNotified = args]

\* setDashboardActive(dashboardKey), on the manager
setActive(m, dashboardKey) ==
  LET wasActive == m.isActive
      previousKey == m.currentDashboardKey
      set == [m EXCEPT !.isActive = TRUE, !.currentDashboardKey = dashboardKey]
  IN IF ~wasActive \/ previousKey # dashboardKey
       THEN notified(set, <<"true", dashboardKey>>)
       ELSE set

\* A slip that leaves the key in place when the dashboard goes inactive.
setInactiveKeepingKey(m) ==
  IF m.isActive THEN notified([m EXCEPT !.isActive = FALSE], <<"false", "null">>)
  ELSE m

\* setDashboardInactive(), on the manager
setInactive(m) ==
  LET wasActive == m.isActive
      set == [m EXCEPT !.isActive = FALSE, !.currentDashboardKey = "null"]
  IN IF wasActive THEN notified(set, <<"false", "null">>) ELSE set

\* A slip that keeps the key when the active dashboard is unregistered.
unregisterWithoutDeactivating(m, dashboardKey) ==
  [m EXCEPT !.registeredDashboardKeys = @ \ {dashboardKey}]

\* registerDashboard(dashboardKey), on the manager
register(m, dashboardKey) ==
  LET added == [m EXCEPT !.registeredDashboardKeys = @ \cup {dashboardKey}]
      currentKey == extractDashboardKey(m.pathname)
  IN IF currentKey = dashboardKey THEN setActive(added, dashboardKey) ELSE added

\* unregisterDashboard(dashboardKey), on the manager
unregister(m, dashboardKey) ==
  LET deleted == [m EXCEPT !.registeredDashboardKeys = @ \ {dashboardKey}]
  IN IF m.currentDashboardKey = dashboardKey THEN setInactive(deleted) ELSE deleted

\* isCurrentUrlInAppleHomeDashboard(): the dashboardKey it returns, "null"
\* with isInDashboard false
isCurrentUrlInAppleHomeDashboard(m) ==
  LET currentKey == extractDashboardKey(m.pathname) IN
  IF currentKey = "null" THEN "null"
  ELSE IF currentKey \in m.registeredDashboardKeys THEN currentKey
  ELSE "null"

\* handleNavigationChange(), on the manager
handleNavigation(m) ==
  LET currentPath == m.pathname
      processed == [m EXCEPT !.lastProcessedPath = currentPath]
      dashboardKey == isCurrentUrlInAppleHomeDashboard(processed)
  IN IF currentPath = m.lastProcessedPath THEN m
     ELSE IF dashboardKey # "null" THEN setActive(processed, dashboardKey)
     ELSE IF processed.isActive THEN setInactive(processed)
     ELSE processed

(***************************************************************************)
(* AppleChips, the component of the chip row.  Its fields:                 *)
(*   config: this.config is defined                                        *)
(*   _hass: the hass it holds, NoChipsHass for none; a hass is its states  *)
(*     object, per entity id the entity or NoEntity where it has none      *)
(*   chips, lastRenderedHash (<<>> for ''), statusTextCache: the entries   *)
(*     of the Map in insertion order                                       *)
(* what its customizationManager returns:                                  *)
(*   savedOrder: getSavedChipsOrder()                                      *)
(* and what the host can tell:                                             *)
(*   rendered: the last operation called render()                          *)
(* An entity id is <<domain, object id>>, a status text <<n, m, unit>>.    *)
(* The container is always present; the HTML it is given is not tracked,   *)
(* lastRenderedHash is.                                                    *)
(***************************************************************************)
CacheLimit == 20
MaxTemperature == 23

relevantDomains ==
  {"light", "switch", "climate", "alarm_control_panel", "lock", "media_player",
   "water_heater"}

waterKeywords == {"water", "leak", "flood"}

\* The entities of the house, in the order Object.values(hass.states)
\* lists them.
ChipEntityIds == <<(<<"light", "a">>), (<<"climate", "b">>), (<<"sensor", "c">>)>>

NoEntity == [state |-> "undefined", current_temperature |-> 0, device_class |-> ""]

EntityState(state, temperature) ==
  [state |-> state, current_temperature |-> temperature, device_class |-> ""]

NoChipsHass == [set |-> FALSE, states |-> [id \in Range(ChipEntityIds) |-> NoEntity]]

HassWith(light, climate, sensor) ==
  [set |-> TRUE,
   states |-> [id \in Range(ChipEntityIds) |->
                 IF id[1] = "light" THEN light
                 ELSE IF id[1] = "climate" THEN climate
                 ELSE sensor]]

\* The device groups updateChipData goes through, with config.enabled of
\* the default configuration.
deviceGroups ==
  <<[group |-> "climate", enabled |-> TRUE],
    [group |-> "lighting", enabled |-> TRUE],
    [group |-> "security", enabled |-> TRUE],
    [group |-> "media", enabled |-> TRUE],
    [group |-> "water", enabled |-> FALSE]>>

\* DashboardConfig.getDeviceGroup for the domains of ChipEntityIds.
getDeviceGroup(domain) ==
  IF domain = "light" THEN "lighting"
  ELSE IF domain = "climate" THEN "climate"
  ELSE "none"

\* isWaterEntity of hasRelevantEntityChanges
isWaterEntity(entityId, states) ==
  \/ entityId[2] \in waterKeywords
  \/ states[entityId].device_class = "moisture"

\* hasRelevantEntityChanges(newHass), on the component c
hasRelevantEntityChanges(c, newHass) ==
  IF ~c._hass.set \/ ~c.config THEN TRUE
  ELSE \E entityId \in {id \in Range(ChipEntityIds) : newHass.states[id] # NoEntity} :
         LET domain == entityId[1]
             oldEntity == c._hass.states[entityId]
             newEntity == newHass.states[entityId]
         IN /\ domain \in relevantDomains \/ isWaterEntity(entityId, newHass.states)
            /\ \/ oldEntity = NoEntity \/ newEntity = NoEntity
               \/ oldEntity.state # newEntity.state
               \/ /\ domain = "climate"
                  /\ oldEntity.current_temperature # newEntity.current_temperature

\* applySavedChipsOrder(chips), with savedOrder what getSavedChipsOrder()
\* returns
applySavedChipsOrder(chips, savedOrder) ==
  IF savedOrder = <<>> THEN chips
  ELSE LET has(group) == \E i \in 1..Len(chips) : chips[i].group = group
           chipMap(group) ==
             chips[CHOOSE i \in 1..Len(chips) :
                     /\ chips[i].group = group
                     /\ \A j \in (i + 1)..Len(chips) : chips[j].group # group]
           saved == SelectSeq(savedOrder, has)
           orderedChips == [i \in 1..Len(saved) |-> chipMap(saved[i])]
           usedGroups == Range(saved)
           unused(chip) == chip.group \notin usedGroups
       IN orderedChips \o SelectSeq(chips, unused)

\* The cache key of getGroupStatusText and the text its switch computes,
\* for the entities with the ids `entities`.
cacheKey(group, entities, states) ==
  <<group, [i \in 1..Len(entities) |->
              <<entities[i], states[entities[i]].state,
                states[entities[i]].current_temperature>>]>>

statusText(group, entities, states) ==
  LET on(id) == states[id].state = "on"
      temperatures == {states[entities[i]].current_temperature :
                         i \in {j \in 1..Len(entities) :
                                  /\ entities[j][1] = "climate"
                                  /\ states[entities[j]].current_temperature # 0}}
      min == CHOOSE t \in temperatures : \A u \in temperatures : t <= u
      max == CHOOSE t \in temperatures : \A u \in temperatures : u <= t
  IN IF group = "lighting"
       THEN IF Len(SelectSeq(entities, on)) > 0
              THEN <<Len(SelectSeq(entities, on)), 0, "on">>
              ELSE <<0, 0, "off">>
     ELSE IF group = "climate"
       THEN IF temperatures = {} THEN <<0, 0, "--">>
            ELSE IF min = max THEN <<min, min, "deg">>
            ELSE <<min, max, "deg">>
     ELSE <<0, 0, "off">>

\* getGroupStatusText(group, entities): the cache it leaves
getGroupStatusText(cache, group, entities, states) ==
  LET key == cacheKey(group, entities, states)
      kept == IF Len(cache) > CacheLimit THEN Tail(cache) ELSE cache
  IN IF \E i \in 1..Len(cache) : cache[i].key = key THEN cache
     ELSE Append(kept, [key |-> key, text |-> statusText(group, entities, states)])

\* The text getGroupStatusText returned, read from the cache it left.
cachedText(cache, key) ==
  cache[CHOOSE i \in 1..Len(cache) : cache[i].key = key].text

\* The loop of updateChipData over deviceGroups, from the i-th on.
RECURSIVE pushChips(_, _)
pushChips(c, i) ==
  IF i > Len(deviceGroups) THEN c
  ELSE LET group == deviceGroups[i].group
           inGroup(id) == /\ c._hass.states[id] # NoEntity
                          /\ getDeviceGroup(id[1]) = group
           groupEntities == SelectSeq(ChipEntityIds, inGroup)
           cache == getGroupStatusText(c.statusTextCache, group, groupEntities,
                                       c._hass.states)
           key == cacheKey(group, groupEntities, c._hass.states)
       IN IF ~deviceGroups[i].enabled \/ groupEntities = <<>>
            THEN pushChips(c, i + 1)
          ELSE pushChips([c EXCEPT !.statusTextCache = cache,
                                   !.chips = Append(@, [group |-> group,
                                                        statusText |-> cachedText(cache, key)])],
                         i + 1)

\* updateChipData()
updateChipData(c) ==
  LET pushed == pushChips([c EXCEPT !.chips = <<>>], 1)
  IN [pushed EXCEPT !.chips = applySavedChipsOrder(@, c.savedOrder)]

\* render()
render(c) ==
  IF ~c._hass.set \/ ~c.config THEN c
  ELSE LET updated == updateChipData(c)
       IN [updated EXCEPT !.lastRenderedHash = updated.chips]

\* new AppleChips(container, customizationManager)
NewAppleChips ==
  [config |-> FALSE, _hass |-> NoChipsHass, chips |-> <<>>,
   lastRenderedHash |-> <<>>, statusTextCache |-> <<>>, savedOrder |-> <<>>,
   rendered |-> FALSE]

\* set hass(hass), on the component c
setChipsHass(c, hass) ==
  LET held == [c EXCEPT !._hass = hass, !.rendered = FALSE]
  IN IF hass.set /\ c._hass.set /\ hasRelevantEntityChanges(c, hass)
       THEN IF c.config THEN [render(held) EXCEPT !.rendered = TRUE] ELSE held
     ELSE IF ~c._hass.set
       THEN IF c.config THEN [render(held) EXCEPT !.rendered = TRUE] ELSE held
     ELSE held

(***************************************************************************)
(* RTLHelper: the record [isRTL, currentLanguage] of its static fields;    *)
(* isRTL is "null", "true" or "false".                                     *)
(***************************************************************************)
RTL_LANGUAGES == {"ar", "he", "fa", "ur", "yi", "ku", "dv"}

RTLHelperLoaded == [isRTL |-> "null", currentLanguage |-> "null"]

(***************************************************************************)
(* RegistrySubscriptionManager.  Its fields:                               *)
(*   hass: NoHass or a hass instance                                       *)
(*   unsubscribeOf: per registry, the subscribe() call whose unsubscribe   *)
(*     function the field entity/device/areaRegistryUnsubscribe holds, or  *)
(*     NoTask for null                                                     *)
(*   pollingInterval: the subscribe() call that set the interval, NoTask   *)
(*     for null                                                            *)
(*   isSubscribed, pendingUpdate (the event of the debounce timeout or     *)
(*     "null")                                                             *)
(* and what lives outside the object:                                      *)
(*   subscriptions: the event subscriptions live on a connection, each     *)
(*     <<subscribe() call, registry, hass>>                                *)
(*   intervals: the live polling intervals, named by the call that set     *)
(*     them                                                                *)
(*   calls: per subscribe() call, where it is suspended (pc) and the hass  *)
(*     its pending request went to (on)                                    *)
(*   phase: what the host did last: "new", "setHass", "unsubscribe",       *)
(*     "destroy"                                                           *)
(*   now: the clock, in ms                                                 *)
(*   timers: the timeouts of scheduleUpdate that are pending in the        *)
(*     browser, each [event, due]                                          *)
(*   lastEvent: the last event given to scheduleUpdate since the last      *)
(*     notification and when it arrived, [type, at]                        *)
(*   lastHash: per registry, lastEntityHash / lastDeviceHash / lastAreaHash*)
(*   listings: per registry, what config/<registry>_registry/list returns  *)
(* A registry entry is [id, rel, irr]: its id, the properties the hash     *)
(* includes (area_id, device_id, hidden_by, disabled_by, name of an area)  *)
(* and the ones it leaves out.  A hash is [array, data]: the JSON text of  *)
(* the array data, or the empty string (array = FALSE).                    *)
(***************************************************************************)
NoHass == 0
NoTask == 0
\* private debounceMs = 500
DebounceMs == 500
\* The clock advances by half the debounce time at most, up to MaxNow.
TickMs == DebounceMs \div 2
MaxNow == 5 * DebounceMs
NoEvent == [type |-> "none", at |-> 0]

\* Ids of registry entries, in localeCompare order.
EntryIds == <<"a", "b">>
localeCompare(x, y) ==
  LET ix == CHOOSE i \in 1..Len(EntryIds) : EntryIds[i] = x
      iy == CHOOSE i \in 1..Len(EntryIds) : EntryIds[i] = y
  IN ix - iy

\* The listings a registry may return: entries with distinct ids.  The
\* entity registry holds up to two entries, in either order, the first of
\* which changes in what the hash includes and in what it leaves out; the
\* other registries hold up to one entry.
Entries(g) ==
  IF g = "entity"
    THEN [id : {"a"}, rel : {"", "kitchen"}, irr : {"", "renamed"}]
         \cup {[id |-> "b", rel |-> "", irr |-> ""]}
    ELSE {[id |-> "a", rel |-> "", irr |-> ""]}
ListingsOf(g) ==
  {<<>>} \cup {<<e>> : e \in {e \in Entries(g) : e.id = "a"}}
  \cup {l \in {<<e, f>> : e \in Entries(g), f \in Entries(g)} :
          /\ l[1].id # l[2].id
          /\ l[1].irr = ""}
EmptyHash == [array |-> FALSE, data |-> <<>>]

\* entities.map(e => ({ id, area, device, hidden, disabled }))
relevantData(listing) ==
  [i \in 1..Len(listing) |-> [id |-> listing[i].id, rel |-> listing[i].rel]]

\* Array.prototype.sort((a, b) => a.id.localeCompare(b.id)): a stable
\* insertion of each element behind the elements that do not follow it.
RECURSIVE sortById(_)
sortById(data) ==
  IF data = <<>> THEN <<>>
  ELSE LET rest == sortById(SubSeq(data, 1, Len(data) - 1))
           e == data[Len(data)]
           k == Cardinality({i \in 1..Len(rest) : localeCompare(rest[i].id, e.id) <= 0})
       IN SubSeq(rest, 1, k) \o <<e>> \o SubSeq(rest, k + 1, Len(rest))

\* A slip that serialises the entries in the order the registry lists them.
createHashUnsorted(listing) == [array |-> TRUE, data |-> relevantData(listing)]

\* createEntityHash / createDeviceHash / createAreaHash
createHash(listing) == [array |-> TRUE, data |-> sortById(relevantData(listing))]
Registries == <<"entity", "device", "area">>
RegistryNames == Range(Registries)

NewRegistrySubscriptionManager ==
  [hass |-> NoHass,
   unsubscribeOf |-> [g \in RegistryNames |-> NoTask],
   pollingInterval |-> NoTask,
   isSubscribed |-> FALSE,
   pendingUpdate |-> "null",
   subscriptions |-> {},
   intervals |-> {},
   calls |-> [t \in Tasks |-> [pc |-> "unused", on |-> NoHass]],
   phase |-> "new",
   now |-> 0,
   timers |-> {},
   lastEvent |-> NoEvent,
   lastHash |-> [g \in RegistryNames |-> EmptyHash],
   listings |-> [g \in RegistryNames |-> <<>>]]

\* unsubscribe(): call and null each stored unsubscribe function, clear the
\* stored interval.
unsubscribe(s) ==
  [s EXCEPT !.subscriptions =
              {u \in @ : s.unsubscribeOf[u[2]] # u[1]},
            !.unsubscribeOf = [g \in RegistryNames |-> NoTask],
            !.intervals = @ \ {s.pollingInterval},
            !.pollingInterval = NoTask,
            !.isSubscribed = FALSE]

\* startPollingFallback(), called by subscribe() call t
startPollingFallback(s, t) ==
  IF s.pollingInterval # NoTask THEN s
  ELSE [s EXCEPT !.pollingInterval = t, !.intervals = @ \cup {t}]

\* subscribe() call t runs from its i-th subscribeEvents request on, up to
\* its next await.  this.hass.connection is read when the request is made:
\* with hass null the TypeError is caught by the try around the request and
\* the call goes on to the next one.  After the third request: isSubscribed
\* = true and await this.initializeHashes().
RECURSIVE request(_, _, _)
request(s, t, i) ==
  IF i > Len(Registries)
    THEN [s EXCEPT !.isSubscribed = TRUE,
                   !.calls[t] = [pc |-> "hashes", on |-> s.hass]]
  ELSE IF s.hass = NoHass THEN request(s, t, i + 1)
  ELSE [s EXCEPT !.calls[t] = [pc |-> Registries[i], on |-> s.hass]]

\* subscribe(), as call t, up to its first await
subscribe(s, t) ==
  IF s.hass = NoHass THEN s ELSE request(unsubscribe(s), t, 1)

\* setTimeout(() => ..., this.debounceMs) for the event type; the timeout
\* is named by its event and the time it is due.
setTimeout(s, type) ==
  [s EXCEPT !.pendingUpdate = type,
            !.timers = @ \cup {[event |-> type, due |-> s.now + DebounceMs]},
            !.lastEvent = [type |-> type, at |-> s.now]]

\* A slip that sets the new timeout without clearing the pending one.
scheduleUpdateWithoutClear(s, type) == setTimeout(s, type)

\* scheduleUpdate(event): the pending timeout is cleared and a new one set.
scheduleUpdate(s, type) ==
  setTimeout([s EXCEPT !.timers = {tm \in @ : tm.event # s.pendingUpdate}], type)

\* initializeHashes() of subscribe() call t once the three listings have
\* arrived; with hass null when it was called it has returned at once.
initializeHashes(s, t) ==
  IF s.calls[t].on = NoHass THEN s
  ELSE [s EXCEPT !.lastHash = [g \in RegistryNames |-> createHash(s.listings[g])]]

\* checkForChanges() once the three listings `fetched` have arrived.
compareHashes(s, fetched) ==
  LET hash == [g \in RegistryNames |-> createHash(fetched[g])]
      changed == {g \in RegistryNames : hash[g] # s.lastHash[g]}
      changeType == IF "entity" \in changed THEN "entity"
                    ELSE IF "device" \in changed THEN "device"
                    ELSE "area"
      stored == [s EXCEPT !.lastHash =
                   [g \in RegistryNames |->
                      IF g \in changed THEN hash[g] ELSE s.lastHash[g]]]
  IN IF s.hass = NoHass THEN s
     ELSE IF changed # {} THEN scheduleUpdate(stored, changeType)
     ELSE stored

(***************************************************************************)
(* Initial states.  NothingAttached: no container attached, no gesture.    *)
(* Init: both managers constructed.  ProcessStart: none constructed yet.   *)
(***************************************************************************)
NothingAttached ==
  /\ isReordering = FALSE
  /\ sortableInstances = [c \in Containers |-> NoInstance]
  /\ liveInstances = [c \in Containers |-> {}]
  /\ attachCalls = [r \in Roots |-> 0]
  /\ callbackThrows = FALSE
  /\ escapes = [c \in Containers |-> 0]
  /\ observed = [c \in Containers |-> {}]
  /\ dragVisual = [m \in Managers |-> NoClone]
  /\ bodyClones = [c \in Containers |-> 0]
  /\ cloneX = [m \in Managers |-> 0]
  /\ cloneContent = [m \in Managers |-> NoContent]
  /\ cameraRegion = RenderedCamera
  /\ domOrder = [c \in Containers |-> RenderedOrder(c)]
  /\ draggingClass = [c \in Containers |-> {}]
  /\ controlsHidden = [c \in Containers |-> {}]
  /\ listening = [c \in Containers |-> FALSE]
  /\ scroll = [c \in Containers |-> IdleScroll]
  /\ userSelectNone = FALSE
  /\ session = [c \in Containers |-> "idle"]
  /\ evtItem = [c \in Containers |-> NoItem]
  /\ orderAtStart = [c \in Containers |-> RenderedOrder(c)]
  /\ cancelled = [c \in Containers |-> FALSE]
  /\ endRepeats = [c \in Containers |-> 0]
  /\ saveCalls = [c \in Containers |-> 0]
  /\ lastSaved = [c \in Containers |-> NoCall]
  /\ cameraReloads = [c \in Containers |-> 0]
  /\ drags = 0
  /\ dashboardStateManager = NewDashboardStateManager
  /\ rtlHelper = RTLHelperLoaded
  /\ registrySubscriptionManager = NewRegistrySubscriptionManager
  /\ listeners = [n \in Notifiers |-> <<>>]
  /\ throwing = {}
  /\ heard = NoNotification
  /\ appleChips = NewAppleChips

Init ==
  /\ constructed = Managers
  /\ globalStylesInjected = TRUE
  /\ styleNodes = 1
  /\ NothingAttached

ProcessStart ==
  /\ constructed = {}
  /\ globalStylesInjected = FALSE
  /\ styleNodes = 0
  /\ NothingAttached

SetVisual(v) ==
  /\ dragVisual' = v.dragVisual
  /\ bodyClones' = v.bodyClones
  /\ cloneX' = v.cloneX
  /\ cloneContent' = v.cloneContent

SetHost(h) ==
  /\ saveCalls' = h.saveCalls
  /\ lastSaved' = h.lastSaved

Active == {c \in Containers : session[c] = "dragging"}

(***************************************************************************)
(* Container Registry.                                                     *)
(***************************************************************************)
RootManager(r) == IF r = "room" THEN 2 ELSE 1
Under(r) ==
  CASE r = "page" -> {"carousel"}
    [] r = "chipsHost" -> {"chips"}
    [] r = "room" -> {"grid"}
RootClasses(r) == IF r = "chipsHost" THEN {"permanent-chips"} ELSE {}

\* container.querySelectorAll('.area-entities, .room-group-grid')
GridContainers(r) ==
  {c \in Under(r) : Classes(c) \cap {"area-entities", "room-group-grid"} # {}}
\* container.querySelectorAll('.carousel-grid:not(.chips)')
CarouselContainers(r) ==
  {c \in Under(r) : "carousel-grid" \in Classes(c) /\ "chips" \notin Classes(c)}
\* container.classList.contains('permanent-chips') and
\* container.querySelector('.chips-grid')
ChipsContainers(r) ==
  IF "permanent-chips" \in RootClasses(r)
    THEN {c \in Under(r) : "chips-grid" \in Classes(c)} ELSE {}
\* container.querySelectorAll('.carousel-grid') of disableDragAndDrop
AnyCarouselContainers(r) == {c \in Under(r) : "carousel-grid" \in Classes(c)}

\* The host attaches and detaches only while no gesture is in progress on
\* the containers concerned.
Quiet(S) == \A c \in S : session[c] = "idle"

\* existingInstance.destroy() / instance.destroy(): the Sortable instances of
\* the containers in S are gone, and with them the library's record of their
\* last session; the host's per-session call record is dropped with it.
Forgotten(S) ==
  /\ evtItem' = [c \in Containers |-> IF c \in S THEN NoItem ELSE evtItem[c]]
  /\ orderAtStart' = [c \in Containers |-> IF c \in S THEN domOrder[c] ELSE orderAtStart[c]]
  /\ cancelled' = [c \in Containers |-> c \notin S /\ cancelled[c]]
  /\ endRepeats' = [c \in Containers |-> IF c \in S THEN 0 ELSE endRepeats[c]]
  /\ saveCalls' = [c \in Containers |-> IF c \in S THEN 0 ELSE saveCalls[c]]
  /\ lastSaved' = [c \in Containers |-> IF c \in S THEN NoCall ELSE lastSaved[c]]
  /\ cameraReloads' = [c \in Containers |-> IF c \in S THEN 0 ELSE cameraReloads[c]]
  /\ escapes' = [c \in Containers |-> IF c \in S THEN 0 ELSE escapes[c]]
  /\ observed' = [c \in Containers |-> IF c \in S THEN {} ELSE observed[c]]

\* The containers this.sortableInstances has an entry for.
Stored == {c \in Containers : sortableInstances[c] # NoInstance}

\* new Sortable(element, options): the new instance takes the first name no
\* live instance of the element carries.
NewSortable(live) ==
  CHOOSE i \in InstanceIds : i \notin live /\ \A j \in InstanceIds \ live : i <= j

\* A slip that leaves the previous instance alive.
keepExisting(live, existingInstance) == live

\* if (existingInstance) existingInstance.destroy()
destroyExisting(live, existingInstance) == live \ {existingInstance}

\* setupGridSortable / setupCarouselSortable / enableChipsCarousel on one
\* element, up to this.sortableInstances.set(element, sortable): the live
\* instances of the element and the instance stored for it.
setupSortable(live, existingInstance) ==
  LET left == destroyExisting(live, existingInstance)
      sortable == NewSortable(left)
  IN [live |-> left \cup {sortable}, stored |-> sortable]

\* enableDragAndDrop(container): setupGridSortable / setupCarouselSortable /
\* enableChipsCarousel for every region found; each creates a new Sortable
\* with a fresh closure (lastX = 0, speed 0, no animation id).
enableDragAndDrop(r) ==
  LET found == GridContainers(r) \cup CarouselContainers(r) \cup ChipsContainers(r)
      new == [c \in found |-> setupSortable(liveInstances[c], sortableInstances[c])]
  IN
  /\ RootManager(r) \in constructed
  /\ Quiet(found)
  /\ sortableInstances' = [c \in Containers |->
       IF c \in found THEN new[c].stored ELSE sortableInstances[c]]
  /\ liveInstances' = [c \in Containers |->
       IF c \in found THEN new[c].live ELSE liveInstances[c]]
  /\ scroll' = [c \in Containers |->
       IF c \in found
         THEN [IdleScroll EXCEPT !.scrollLeft = scroll[c].scrollLeft,
                                 !.pendingFrames = scroll[c].pendingFrames]
         ELSE scroll[c]]
  /\ Forgotten(found \cap Stored)
  /\ UNCHANGED <<isReordering, dragVisual, cloneContent, bodyClones, cloneX, domOrder,
                 draggingClass, controlsHidden, listening, userSelectNone,
                 session, drags, callbackThrows, process, services, cameraRegion>>

\* disableDragAndDrop(container)
disableDragAndDrop(r) ==
  LET found == (GridContainers(r) \cup AnyCarouselContainers(r)) \cap Stored IN
  /\ RootManager(r) \in constructed
  /\ Quiet(found)
  /\ sortableInstances' = [c \in Containers |->
       IF c \in found THEN NoInstance ELSE sortableInstances[c]]
  /\ liveInstances' = [c \in Containers |->
       IF c \in found THEN liveInstances[c] \ {sortableInstances[c]}
       ELSE liveInstances[c]]
  /\ Forgotten(found)
  /\ UNCHANGED <<isReordering, dragVisual, cloneContent, bodyClones, cloneX, domOrder,
                 draggingClass, controlsHidden, listening, scroll,
                 userSelectNone, session, drags, callbackThrows, process, services, cameraRegion>>

\* destroy()
destroy(m) ==
  LET mine == {c \in Stored : Manager(c) = m} IN
  /\ m \in constructed
  /\ Quiet(mine)
  /\ SetVisual(removeDragVisual(Visual, m))
  /\ sortableInstances' = [c \in Containers |->
       IF c \in mine THEN NoInstance ELSE sortableInstances[c]]
  /\ liveInstances' = [c \in Containers |->
       IF c \in mine THEN liveInstances[c] \ {sortableInstances[c]}
       ELSE liveInstances[c]]
  /\ Forgotten(mine)
  /\ UNCHANGED <<isReordering, domOrder, draggingClass, controlsHidden,
                 listening, scroll, userSelectNone, session, drags,
                 callbackThrows, process, services, cameraRegion>>

\* The host calls the registry and keeps track of the roots it has attached.
HostAttaches(r) ==
  /\ attachCalls[r] < MaxAttaches
  /\ enableDragAndDrop(r)
  /\ attachCalls' = [attachCalls EXCEPT ![r] = @ + 1]

HostDetaches(r) ==
  /\ attachCalls[r] > 0
  /\ disableDragAndDrop(r)
  /\ attachCalls' = [attachCalls EXCEPT ![r] = 0]

HostDestroys(m) ==
  /\ destroy(m)
  /\ attachCalls' = [r \in Roots |-> IF RootManager(r) = m THEN 0 ELSE attachCalls[r]]

\* new DragAndDropManager(saveOrderCallback, customizationManager, context)
Constructor(m) ==
  /\ m \notin constructed
  /\ constructed' = constructed \cup {m}
  /\ LET p == injectGlobalStyles([globalStylesInjected |-> globalStylesInjected,
                                  styleNodes |-> styleNodes])
     IN /\ globalStylesInjected' = p.globalStylesInjected
        /\ styleNodes' = p.styleNodes
  /\ UNCHANGED <<isReordering, registry, dragVisual, cloneContent, bodyClones, cloneX,
                 domOrder, draggingClass, controlsHidden, listening, scroll,
                 userSelectNone, session, evtItem, orderAtStart, cancelled,
                 endRepeats, saveCalls, lastSaved, cameraReloads,
                 callbackThrows, escapes, observed, drags, services,
                 cloneContent, cameraRegion>>

\* The card of the first camera renders anew: a snapshot arrives or fades,
\* the camera becomes unavailable or has no snapshot yet.
CameraRenders(r) ==
  /\ cameraRegion' = r
  /\ UNCHANGED <<isReordering, process, services, registry, dragVisual,
                 cloneContent, bodyClones, cloneX, domOrder, draggingClass,
                 controlsHidden, listening, scroll, userSelectNone, session,
                 evtItem, orderAtStart, cancelled, endRepeats, saveCalls,
                 lastSaved, cameraReloads, callbackThrows, escapes, observed,
                 drags>>

\* The host's persistence callbacks start or stop failing.
HostFails ==
  /\ callbackThrows' = ~callbackThrows
  /\ UNCHANGED <<isReordering, process, services, cameraRegion, registry, dragVisual, cloneContent, bodyClones,
                 cloneX, domOrder, draggingClass, controlsHidden, listening,
                 scroll, userSelectNone, session, evtItem, orderAtStart,
                 cancelled, endRepeats, saveCalls, lastSaved, cameraReloads,
                 escapes, observed, drags>>

(***************************************************************************)
(* Operations of the three services.                                       *)
(***************************************************************************)
\* addListener(callback) of service n
addListener(n, cb) ==
  /\ n = "registry" => registrySubscriptionManager.phase # "destroy"
  /\ listeners' = [listeners EXCEPT ![n] = SetAdd(@, cb)]
  /\ UNCHANGED <<dragAndDrop, appleChips, dashboardStateManager, rtlHelper,
                 registrySubscriptionManager, heard, throwing>>

\* A component of the host registers its callback with every service when
\* it is connected and removes it when it is disconnected.
HostListens(cb) ==
  /\ listeners' = [n \in Notifiers |-> SetAdd(listeners[n], cb)]
  /\ UNCHANGED <<dragAndDrop, appleChips, dashboardStateManager, rtlHelper,
                 registrySubscriptionManager, heard, throwing>>

HostStopsListening(cb) ==
  /\ listeners' = [n \in Notifiers |-> SetDelete(listeners[n], cb)]
  /\ UNCHANGED <<dragAndDrop, appleChips, dashboardStateManager, rtlHelper,
                 registrySubscriptionManager, heard, throwing>>

\* A listener of the host starts or stops throwing when it is called.
ListenerBreaks(cb) ==
  /\ throwing' = IF cb \in throwing THEN throwing \ {cb} ELSE throwing \cup {cb}
  /\ UNCHANGED <<dragAndDrop, appleChips, dashboardStateManager, rtlHelper,
                 registrySubscriptionManager, heard, listeners>>

\* The manager at the start of an operation on
\* DashboardStateManager.getInstance(), called by `by`.
Instance(by) ==
  [getInstance(dashboardStateManager, by) EXCEPT !.emit = <<>>, !.checked = FALSE]

\* An operation that takes the manager to m has returned: its
\* notifyListeners call, if it made one, has called the listeners.
Returns(m) ==
  /\ dashboardStateManager' = [m EXCEPT !.emit = <<>>]
  /\ heard' = IF m.emit # <<>> THEN notifyListeners("dashboard", m.emit)
              ELSE heard
  /\ UNCHANGED <<dragAndDrop, appleChips, rtlHelper, registrySubscriptionManager, throwing>>

\* DashboardStateManager.setDashboardActive(dashboardKey)
setDashboardActive(dashboardKey) ==
  /\ Returns(setActive(Instance("host"), dashboardKey))
  /\ UNCHANGED listeners

\* DashboardStateManager.setDashboardInactive()
setDashboardInactive ==
  /\ Returns(setInactive(Instance("host")))
  /\ UNCHANGED listeners

\* DashboardStateManager.registerDashboard(dashboardKey)
registerDashboard(dashboardKey) ==
  /\ Returns(register(Instance("host"), dashboardKey))
  /\ UNCHANGED listeners

\* DashboardStateManager.unregisterDashboard(dashboardKey)
unregisterDashboard(dashboardKey) ==
  /\ Returns(unregister(Instance("host"), dashboardKey))
  /\ UNCHANGED listeners

\* DashboardStateManager.checkCurrentState()
checkCurrentState ==
  /\ Returns([handleNavigation(Instance("host")) EXCEPT !.checked = TRUE])
  /\ UNCHANGED listeners

\* The router calls history.pushState / replaceState: the location changes
\* and every installed wrapper defers a handleNavigationChange().
pushState(path) ==
  /\ dashboardStateManager.deferred + dashboardStateManager.wraps <= MaxDeferred
  /\ path # dashboardStateManager.pathname
  /\ dashboardStateManager' =
       [dashboardStateManager EXCEPT !.pathname = path,
                                     !.deferred = @ + dashboardStateManager.wraps,
                                     !.checked = FALSE]
  /\ UNCHANGED <<dragAndDrop, appleChips, rtlHelper, registrySubscriptionManager, heard,
                 listeners, throwing>>

\* A deferred callback of the wrapper runs:
\* DashboardStateManager.getInstance().handleNavigationChange()
DeferredNavigationChange ==
  /\ dashboardStateManager.deferred > 0
  /\ Returns([handleNavigation(Instance("timeout")) EXCEPT
                !.deferred = @ - 1, !.checked = TRUE])
  /\ UNCHANGED listeners

\* DashboardStateManager.destroy(), on the instance the host holds
destroyDashboardStateManager ==
  /\ dashboardStateManager.instance
  /\ dashboardStateManager' =
       [dashboardStateManager EXCEPT !.registeredDashboardKeys = {},
                                     !.currentDashboardKey = "null",
                                     !.isActive = FALSE,
                                     !.instance = FALSE,
                                     !.checked = FALSE]
  /\ listeners' = [listeners EXCEPT !["dashboard"] = <<>>]
  /\ UNCHANGED <<dragAndDrop, appleChips, rtlHelper, registrySubscriptionManager, heard,
                 throwing>>

\* AppleChips.setConfig(config)
setConfig ==
  /\ appleChips' =
       IF appleChips._hass.set
         THEN [render([appleChips EXCEPT !.config = TRUE]) EXCEPT !.rendered = TRUE]
       ELSE [appleChips EXCEPT !.config = TRUE, !.rendered = FALSE]
  /\ UNCHANGED <<dragAndDrop, dashboardStateManager, rtlHelper,
                 registrySubscriptionManager, listeners, throwing, heard>>

\* The host assigns a hass to the component: set hass(hass)
set_hass(newHass) ==
  /\ appleChips' = setChipsHass(appleChips, newHass)
  /\ UNCHANGED <<dragAndDrop, dashboardStateManager, rtlHelper,
                 registrySubscriptionManager, listeners, throwing, heard>>

\* The customization store is given another chip order.
saveChipsOrder(newOrder) ==
  /\ appleChips' = [appleChips EXCEPT !.savedOrder = newOrder, !.rendered = FALSE]
  /\ UNCHANGED <<dragAndDrop, dashboardStateManager, rtlHelper,
                 registrySubscriptionManager, listeners, throwing, heard>>

\* AppleChips.clearContainer()
clearContainer ==
  /\ appleChips' = [appleChips EXCEPT !.lastRenderedHash = <<>>,
                                      !.statusTextCache = <<>>,
                                      !.rendered = FALSE]
  /\ UNCHANGED <<dragAndDrop, dashboardStateManager, rtlHelper,
                 registrySubscriptionManager, listeners, throwing, heard>>

\* RTLHelper.initialize(hass), with a hass whose language is lang
initialize(lang) ==
  LET previousIsRTL == rtlHelper.isRTL
      previousLanguage == rtlHelper.currentLanguage
      isRTL == IF lang \in RTL_LANGUAGES THEN "true" ELSE "false"
      directionChanged == previousIsRTL # "null" /\ previousIsRTL # isRTL
      languageChanged == previousLanguage # "null" /\ previousLanguage # lang
  IN
  /\ rtlHelper' = [isRTL |-> isRTL, currentLanguage |-> lang]
  /\ heard' = IF directionChanged \/ languageChanged
                THEN notifyListeners("rtl", <<isRTL, lang>>)
                ELSE heard
  /\ UNCHANGED <<dragAndDrop, appleChips, dashboardStateManager,
                 registrySubscriptionManager, listeners, throwing>>

\* The subscribe() calls not made yet.
Unused == {t \in Tasks : registrySubscriptionManager.calls[t].pc = "unused"}

\* RegistrySubscriptionManager.setHass(hass), hass with a connection; a
\* destroyed instance is not handed out again.
setHass(hass) ==
  LET s == registrySubscriptionManager
      hassChanged == s.hass # hass
      t == CHOOSE t \in Unused : \A u \in Unused : t <= u
      set == [s EXCEPT !.hass = hass, !.phase = "setHass"]
  IN
  /\ s.phase # "destroy"
  /\ hassChanged => Unused # {}
  /\ registrySubscriptionManager' = IF hassChanged THEN subscribe(set, t) ELSE set
  /\ UNCHANGED <<dragAndDrop, appleChips, dashboardStateManager, rtlHelper, heard,
                 listeners, throwing>>

\* Position of a registry in the order subscribe() takes them.
RegistryIndex(g) == CHOOSE i \in 1..Len(Registries) : Registries[i] = g

\* The subscribeEvents request of call t settles: resolved (ok) with the
\* unsubscribe function, which is stored, or rejected; the call runs on to
\* its next await.
SubscribeEventsSettles(t, ok) ==
  LET s == registrySubscriptionManager
      g == s.calls[t].pc
      stored == IF ok
                  THEN [s EXCEPT !.subscriptions = @ \cup {<<t, g, s.calls[t].on>>},
                                 !.unsubscribeOf[g] = t]
                  ELSE s
  IN
  /\ g \in RegistryNames
  /\ registrySubscriptionManager' = request(stored, t, RegistryIndex(g) + 1)
  /\ UNCHANGED <<dragAndDrop, appleChips, dashboardStateManager, rtlHelper, heard,
                 listeners, throwing>>

\* initializeHashes() of call t returns: startPollingFallback(), and the
\* call is over.
InitializeHashesReturns(t) ==
  LET s == registrySubscriptionManager IN
  /\ s.calls[t].pc = "hashes"
  /\ registrySubscriptionManager' =
       [startPollingFallback(initializeHashes(s, t), t) EXCEPT !.calls[t].pc = "done"]
  /\ UNCHANGED <<dragAndDrop, appleChips, dashboardStateManager, rtlHelper, heard,
                 listeners, throwing>>

\* A live subscription delivers an event: handleEntity/Device/Area
\* RegistryEvent -> scheduleUpdate.
handleRegistryEvent(u) ==
  /\ u \in registrySubscriptionManager.subscriptions
  /\ registrySubscriptionManager' = scheduleUpdate(registrySubscriptionManager, u[2])
  /\ UNCHANGED <<dragAndDrop, appleChips, dashboardStateManager, rtlHelper, heard,
                 listeners, throwing>>

\* A live polling interval fires and checkForChanges() finds the registry
\* g changed (what the registries list is left to compareHashes).
checkForChanges(t, g) ==
  /\ t \in registrySubscriptionManager.intervals
  /\ registrySubscriptionManager.hass # NoHass
  /\ registrySubscriptionManager' = scheduleUpdate(registrySubscriptionManager, g)
  /\ UNCHANGED <<dragAndDrop, appleChips, dashboardStateManager, rtlHelper, heard,
                 listeners, throwing>>

\* The timeout tm of scheduleUpdate fires: this.pendingUpdate = null;
\* this.notifyListeners(event).
TimeoutFires(tm) ==
  LET s == registrySubscriptionManager IN
  /\ tm \in s.timers
  /\ registrySubscriptionManager' =
       [s EXCEPT !.pendingUpdate = "null", !.timers = @ \ {tm},
                 !.lastEvent = NoEvent]
  /\ heard' = notifyListeners("registry", <<tm.event>>)
  /\ UNCHANGED <<dragAndDrop, appleChips, dashboardStateManager, rtlHelper, listeners,
                 throwing>>

\* A debounce timeout of scheduleUpdate fires.
PendingUpdateFires ==
  \E tm \in registrySubscriptionManager.timers : TimeoutFires(tm)

\* Time passes: by TickMs, or up to the next pending timeout if that is due
\* earlier (the browser runs a timeout when it is due).
Tick ==
  LET s == registrySubscriptionManager
      next == Min(s.now + TickMs, MaxNow)
      due == {tm.due : tm \in s.timers}
      to == IF \E d \in due : d < next
              THEN CHOOSE d \in due : \A e \in due : d <= e
              ELSE next
  IN
  /\ s.now < to
  /\ registrySubscriptionManager' = [s EXCEPT !.now = to]
  /\ UNCHANGED <<dragAndDrop, appleChips, dashboardStateManager, rtlHelper, heard,
                 listeners, throwing>>

\* A timeout that is due fires.
DueTimeoutFires ==
  \E tm \in registrySubscriptionManager.timers :
    tm.due <= registrySubscriptionManager.now /\ TimeoutFires(tm)

\* forceRefresh(): await this.checkForChanges(), the listings arrive
forceRefresh ==
  /\ registrySubscriptionManager' =
       compareHashes(registrySubscriptionManager,
                     registrySubscriptionManager.listings)
  /\ UNCHANGED <<dragAndDrop, appleChips, dashboardStateManager, rtlHelper, heard,
                 listeners, throwing>>

\* Home Assistant changes the registry g: its listing becomes l.
RegistryChanges(g, l) ==
  /\ registrySubscriptionManager' =
       [registrySubscriptionManager EXCEPT !.listings[g] = l]
  /\ UNCHANGED <<dragAndDrop, appleChips, dashboardStateManager, rtlHelper, heard,
                 listeners, throwing>>

\* RegistrySubscriptionManager.unsubscribe(), called by the host
HostUnsubscribes ==
  /\ registrySubscriptionManager.phase \in {"setHass", "unsubscribe"}
  /\ registrySubscriptionManager' =
       [unsubscribe(registrySubscriptionManager) EXCEPT !.phase = "unsubscribe"]
  /\ UNCHANGED <<dragAndDrop, appleChips, dashboardStateManager, rtlHelper, heard,
                 listeners, throwing>>

\* RegistrySubscriptionManager.destroy()
destroyRegistrySubscriptionManager ==
  /\ registrySubscriptionManager.phase # "destroy"
  /\ registrySubscriptionManager' =
       [unsubscribe(registrySubscriptionManager) EXCEPT !.hass = NoHass,
                                                        !.phase = "destroy"]
  /\ listeners' = [listeners EXCEPT !["registry"] = <<>>]
  /\ UNCHANGED <<dragAndDrop, appleChips, dashboardStateManager, rtlHelper, heard, throwing>>

(***************************************************************************)
(* The sensing library's side of a drag session.                           *)
(***************************************************************************)
\* The library starts a drag on an attached container with no gesture in
\* progress (it serialises gestures per container).
CanStart(c) ==
  /\ liveInstances[c] # {}
  /\ session[c] = "idle"
  /\ drags < MaxDrags

Started(c, it) ==
  /\ session' = [session EXCEPT ![c] = "dragging"]
  /\ evtItem' = [evtItem EXCEPT ![c] = it]
  /\ orderAtStart' = [orderAtStart EXCEPT ![c] = domOrder[c]]
  /\ cancelled' = [cancelled EXCEPT ![c] = FALSE]
  /\ endRepeats' = [endRepeats EXCEPT ![c] = 0]
  /\ saveCalls' = [saveCalls EXCEPT ![c] = 0]
  /\ lastSaved' = [lastSaved EXCEPT ![c] = NoCall]
  /\ cameraReloads' = [cameraReloads EXCEPT ![c] = 0]
  /\ drags' = drags + 1
  /\ observed' = [observed EXCEPT ![c] = {}]
  /\ UNCHANGED <<callbackThrows, escapes>>

\* Sequence s with element e moved to index j.
Without(s, e) == SelectSeq(s, LAMBDA z : z # e)
\* A slip that swaps e with the element at index j.
SwapWith(s, e, j) ==
  [i \in 1..Len(s) |->
     IF i = j THEN e
     ELSE IF s[i] = e THEN s[j]
     ELSE s[i]]
MoveTo(s, e, j) ==
  LET r == Without(s, e) IN SubSeq(r, 1, j - 1) \o <<e>> \o SubSeq(r, j, Len(r))
IndexOf(s, e) == CHOOSE i \in 1..Len(s) : s[i] = e

\* A slip that commits the order from the move handler.
onMoveCommitting(h, c) == saveOrderCallback(h, c, DataAreaId(c))

\* The options' onMove, on the host record: return true, nothing else.
onMove(h, c) == h

\* While dragging, the library moves the dragged node among its siblings as
\* the pointer crosses them (the options' onMove returns true: allowed).
LibrarySort(c, j) ==
  /\ session[c] = "dragging"
  /\ j \in 1..Len(domOrder[c])
  /\ j # IndexOf(domOrder[c], evtItem[c])
  /\ domOrder' = [domOrder EXCEPT ![c] = MoveTo(@, evtItem[c], j)]
  /\ UNCHANGED <<isReordering, process, services, cameraRegion, registry, dragVisual, cloneContent, bodyClones,
                 cloneX, draggingClass, controlsHidden, listening, scroll,
                 userSelectNone, session, evtItem, orderAtStart, cancelled,
                 endRepeats, cameraReloads,
                 callbackThrows, escapes, observed, drags>>
  /\ SetHost(onMove(Host, c))

\* How the library delivers onEnd: "drop" ends the session with the DOM as
\* the drag left it, "cancel" puts the item back where it started and ends
\* the session, "again" delivers onEnd once more for a session that ended.
Hows == {"drop", "cancel", "again"}

CanEnd(c, how) ==
  IF how = "again"
    THEN session[c] = "idle" /\ evtItem[c] # NoItem /\ liveInstances[c] # {}
         /\ endRepeats[c] < MaxEndRepeats
    ELSE session[c] = "dragging"

\* DOM order of the container when onEnd runs.
EndOrder(c, how) == IF how = "cancel" THEN orderAtStart[c] ELSE domOrder[c]

Ended(c, how) ==
  /\ session' = [session EXCEPT ![c] = "idle"]
  /\ domOrder' = [domOrder EXCEPT ![c] = EndOrder(c, how)]
  /\ cancelled' = [cancelled EXCEPT ![c] = IF how = "again" THEN @ ELSE how = "cancel"]
  /\ endRepeats' = [endRepeats EXCEPT ![c] = IF how = "again" THEN @ + 1 ELSE @]
  /\ orderAtStart' = [orderAtStart EXCEPT ![c] = EndOrder(c, how)]
  /\ UNCHANGED <<evtItem, drags, callbackThrows, observed>>

(***************************************************************************)
(* Drag Session Controller: the handlers given to the sensing library.     *)
(***************************************************************************)
\* gridContainer.querySelectorAll('.entity-controls')
ControlsOf(c) == {it \in Items(c) : HasEntityControls(c, it)}

\* querySelectorAll('.entity-controls').forEach(ctrl => visibility = 'hidden')
hideControls(hidden, c) == hidden \cup ControlsOf(c)

\* A slip that restores only the controls of the dragged item.
showControlsOfItemOnly(hidden, c, it) == hidden \ {it}

\* querySelectorAll('.entity-controls').forEach(ctrl => visibility = '')
showControls(hidden, c, it) == hidden \ ControlsOf(c)

\* A slip that toggles the class instead of removing it.
classListToggle(classes, it) ==
  IF it \in classes THEN classes \ {it} ELSE classes \cup {it}

\* evt.item.classList.remove('dragging')
classListRemove(classes, it) == classes \ {it}

\* A slip that leaves the move listeners of the session on the document.
removeEventListenerMissing(l, c) == l

\* document.removeEventListener('mousemove', onMove) and ('touchmove', onMove)
removeEventListener(l, c) == [l EXCEPT ![c] = FALSE]

\* A slip that wraps the host call in try / catch and drops the exception.
catchAndDrop(threw) == FALSE

\* The host call is the last statement of every onEnd and is not wrapped in
\* try / catch: an exception it throws leaves onEnd.
uncaught(threw) == threw

\* The exceptions that left the onEnd of c so far, after an onEnd whose host
\* calls took the host record to h.
onEndLeaves(e, h, c) ==
  IF uncaught(h.saveCalls[c] > saveCalls[c] /\ callbackThrows)
    THEN [e EXCEPT ![c] = @ + 1] ELSE e

\* setupGridSortable: onStart
GridOnStart(c, it, x) ==
  /\ Kind(c) = "grid"
  /\ CanStart(c)
  /\ isReordering' = TRUE
  /\ draggingClass' = [draggingClass EXCEPT ![c] = @ \cup {it}]
  /\ controlsHidden' = [controlsHidden EXCEPT ![c] = hideControls(@, c)]
  /\ SetVisual(createDragVisual(Visual, Manager(c), c, it, x))
  /\ listening' = [listening EXCEPT ![c] = TRUE]
  /\ userSelectNone' = TRUE
  /\ Started(c, it)
  /\ UNCHANGED <<process, services, cameraRegion, registry, domOrder, scroll>>

\* setupGridSortable: onEnd
GridOnEnd(c, how) ==
  /\ Kind(c) = "grid"
  /\ CanEnd(c, how)
  /\ isReordering' = FALSE
  /\ draggingClass' = [draggingClass EXCEPT ![c] = classListRemove(@, evtItem[c])]
  /\ controlsHidden' = [controlsHidden EXCEPT ![c] = showControls(@, c, evtItem[c])]
  /\ SetVisual(removeDragVisual(Visual, Manager(c)))
  /\ listening' = removeEventListener(listening, c)
  /\ userSelectNone' = FALSE
  /\ cameraReloads' = reconnectSingleCameraManager(cameraReloads, c, evtItem[c])
  /\ UNCHANGED scroll
  /\ LET h == IF DataAreaId(c) # ""
                THEN saveOrderCallback(Host, c, DataAreaId(c)) ELSE Host
     IN SetHost(h) /\ escapes' = onEndLeaves(escapes, h, c)
  /\ Ended(c, how)
  /\ UNCHANGED <<process, services, cameraRegion, registry>>

\* setupCarouselSortable: onStart
CarouselOnStart(c, it, x) ==
  /\ Kind(c) = "carousel"
  /\ CanStart(c)
  /\ isReordering' = TRUE
  /\ draggingClass' = [draggingClass EXCEPT ![c] = @ \cup {it}]
  /\ controlsHidden' = [controlsHidden EXCEPT ![c] = hideControls(@, c)]
  /\ SetVisual(createDragVisual(Visual, Manager(c), c, it, x))
  /\ listening' = [listening EXCEPT ![c] = TRUE]
  /\ userSelectNone' = TRUE
  /\ Started(c, it)
  /\ UNCHANGED <<process, services, cameraRegion, registry, domOrder, scroll>>

\* setupCarouselSortable: onEnd (isReordering is not assigned here)
CarouselOnEnd(c, how) ==
  /\ Kind(c) = "carousel"
  /\ CanEnd(c, how)
  /\ draggingClass' = [draggingClass EXCEPT ![c] = classListRemove(@, evtItem[c])]
  /\ scroll' = [scroll EXCEPT ![c] = stopScrolling(@)]
  /\ controlsHidden' = [controlsHidden EXCEPT ![c] = showControls(@, c, evtItem[c])]
  /\ SetVisual(removeDragVisual(Visual, Manager(c)))
  /\ listening' = removeEventListener(listening, c)
  /\ userSelectNone' = FALSE
  /\ cameraReloads' = reconnectSingleCameraManager(cameraReloads, c, evtItem[c])
  /\ LET h == IF ClosestCarouselGrid(c)
                THEN updateCarouselConfiguration(Host, c, EndOrder(c, how)) ELSE Host
     IN SetHost(h) /\ escapes' = onEndLeaves(escapes, h, c)
  /\ Ended(c, how)
  /\ UNCHANGED <<isReordering, process, services, cameraRegion, registry>>

\* A slip that leaves the flag alone when a chip drag starts.
ChipsOnStartWithoutFlag(c, it, x) ==
  /\ Kind(c) = "chips"
  /\ CanStart(c)
  /\ draggingClass' = [draggingClass EXCEPT ![c] = @ \cup {it}]
  /\ SetVisual(createDragVisual(Visual, Manager(c), c, it, x))
  /\ listening' = [listening EXCEPT ![c] = TRUE]
  /\ userSelectNone' = TRUE
  /\ Started(c, it)
  /\ UNCHANGED <<isReordering, process, services, cameraRegion, registry, domOrder, scroll, controlsHidden>>

\* enableChipsCarousel: onStart
ChipsOnStart(c, it, x) ==
  /\ Kind(c) = "chips"
  /\ CanStart(c)
  /\ isReordering' = TRUE
  /\ draggingClass' = [draggingClass EXCEPT ![c] = @ \cup {it}]
  /\ SetVisual(createDragVisual(Visual, Manager(c), c, it, x))
  /\ listening' = [listening EXCEPT ![c] = TRUE]
  /\ userSelectNone' = TRUE
  /\ Started(c, it)
  /\ UNCHANGED <<process, services, cameraRegion, registry, domOrder, scroll, controlsHidden>>

\* enableChipsCarousel: onEnd
ChipsOnEnd(c, how) ==
  /\ Kind(c) = "chips"
  /\ CanEnd(c, how)
  /\ isReordering' = FALSE
  /\ draggingClass' = [draggingClass EXCEPT ![c] = classListRemove(@, evtItem[c])]
  /\ scroll' = [scroll EXCEPT ![c] = stopScrolling(@)]
  /\ SetVisual(removeDragVisual(Visual, Manager(c)))
  /\ listening' = removeEventListener(listening, c)
  /\ userSelectNone' = FALSE
  /\ UNCHANGED controlsHidden
  /\ LET h == IF ClosestCarouselGridChips(c)
                THEN updateChipsOrder(Host, c, EndOrder(c, how)) ELSE Host
     IN SetHost(h) /\ escapes' = onEndLeaves(escapes, h, c)
  /\ Ended(c, how)
  /\ UNCHANGED <<process, services, cameraRegion, registry, cameraReloads>>

\* The onMove closure of container c for a pointer event at x, on the
\* scroll state: grids have no scroll controller.
onMoveScroll(c, s, x) ==
  CASE Kind(c) = "carousel" -> updateScrollSpeedCarousel(s, x)
    [] Kind(c) = "chips" -> updateScrollSpeedChips(s, x)
    [] OTHER -> s

\* The managers whose containers have an onMove registered on the document.
ListeningManagers == {Manager(c) : c \in {d \in Containers : listening[d]}}

\* The velocity updateScrollSpeed of container c computes for x (newSpeed).
ComputedSpeed(c, s, x) ==
  CASE Kind(c) = "carousel" ->
         EdgeSpeed(s, x, CarouselScrollZone, CarouselMaxSpeed, CarouselMinSpeed)
    [] Kind(c) = "chips" ->
         EdgeSpeed(s, x, ChipsScrollZone, ChipsMaxSpeed, ChipsMinSpeed)
    [] OTHER -> 0

\* Clone positions and scroll states after the registered onMove closures
\* have run for a pointer event at x.
MovedCloneX(x) ==
  [m \in Managers |->
     IF m \in ListeningManagers THEN updateDragVisual(Visual, m, x).cloneX[m]
     ELSE cloneX[m]]

MovedScroll(x) ==
  [c \in Containers |->
     IF listening[c] THEN onMoveScroll(c, scroll[c], x) ELSE scroll[c]]

\* A mousemove / touchmove event on the document at x: every registered
\* onMove runs (lastX = x, this.updateDragVisual, updateScrollSpeed).
PointerMove(x) ==
  /\ TRUE
  /\ cloneX' = MovedCloneX(x)
  /\ scroll' = MovedScroll(x)
  /\ observed' = [c \in Containers |->
       IF listening[c] /\ Kind(c) # "grid" /\ x \in ComparedXs
         THEN observed[c] \cup {<<x, Abs(onMoveScroll(c, scroll[c], x).speed),
                                   Abs(ComputedSpeed(c, scroll[c], x))>>}
         ELSE observed[c]]
  /\ UNCHANGED <<isReordering, process, services, cameraRegion, registry, dragVisual, cloneContent, bodyClones,
                 domOrder, draggingClass, controlsHidden, listening,
                 userSelectNone, session, evtItem, orderAtStart, cancelled,
                 endRepeats, saveCalls, lastSaved, cameraReloads,
                 callbackThrows, escapes, drags>>

\* The browser takes a pending animation-frame callback of container c off
\* its list and runs it, on the scroll state s.
FrameStep(c, s) ==
  LET t == [s EXCEPT !.pendingFrames = @ - 1] IN
  IF Kind(c) = "carousel" THEN animateScroll(t) ELSE smoothScroll(t)

\* The browser runs a pending animation-frame callback of container c.
AnimationFrame(c) ==
  /\ scroll[c].pendingFrames > 0
  /\ scroll' = [scroll EXCEPT ![c] = FrameStep(c, @)]
  /\ UNCHANGED <<isReordering, process, services, cameraRegion, registry, dragVisual, cloneContent, bodyClones,
                 cloneX, domOrder, draggingClass, controlsHidden, listening,
                 userSelectNone, session, evtItem, orderAtStart, cancelled,
                 endRepeats, saveCalls, lastSaved, cameraReloads,
                 callbackThrows, escapes, observed, drags>>

Next ==
  \/ \E r \in Roots : enableDragAndDrop(r) /\ UNCHANGED attachCalls
  \/ \E r \in Roots : disableDragAndDrop(r) /\ UNCHANGED attachCalls
  \/ \E m \in Managers : destroy(m) /\ UNCHANGED attachCalls
  \/ \E c \in Containers : \E it \in Grabbed(c), x \in StartXs : GridOnStart(c, it, x)
  \/ \E c \in Containers : \E it \in Grabbed(c), x \in StartXs : CarouselOnStart(c, it, x)
  \/ \E c \in Containers : \E it \in Grabbed(c), x \in StartXs : ChipsOnStart(c, it, x)
  \/ \E c \in Containers : \E j \in 1..Len(domOrder[c]) : LibrarySort(c, j)
  \/ \E x \in PointerXs : PointerMove(x)
  \/ \E c \in Containers : AnimationFrame(c)
  \/ \E c \in Containers, how \in Hows : GridOnEnd(c, how)
  \/ \E c \in Containers, how \in Hows : CarouselOnEnd(c, how)
  \/ \E c \in Containers, how \in Hows : ChipsOnEnd(c, how)

Spec == Init /\ [][Next]_vars

\* The registry with a host that tracks what it attached; gestures end by
\* a drop.
NextRegistry ==
  \/ \E r \in Roots : HostAttaches(r)
  \/ \E r \in Roots : HostDetaches(r)
  \/ \E m \in Managers : HostDestroys(m)
  \/ \E c \in Containers : \E it \in Grabbed(c), x \in StartXs : GridOnStart(c, it, x)
  \/ \E c \in Containers : \E it \in Grabbed(c), x \in StartXs : CarouselOnStart(c, it, x)
  \/ \E c \in Containers : \E it \in Grabbed(c), x \in StartXs : ChipsOnStart(c, it, x)
  \/ \E c \in Containers : GridOnEnd(c, "drop")
  \/ \E c \in Containers : CarouselOnEnd(c, "drop")
  \/ \E c \in Containers : ChipsOnEnd(c, "drop")

SpecRegistry == Init /\ [][NextRegistry]_vars

\* The process from its start: managers are constructed one after the
\* other, then used.
NextProcess ==
  \/ \E m \in Managers : Constructor(m)
  \/ \E r \in Roots : enableDragAndDrop(r) /\ UNCHANGED attachCalls
  \/ \E m \in Managers : destroy(m) /\ UNCHANGED attachCalls
  \/ \E c \in Containers : \E it \in Grabbed(c), x \in StartXs : GridOnStart(c, it, x)
  \/ \E c \in Containers : \E it \in Grabbed(c), x \in StartXs : CarouselOnStart(c, it, x)
  \/ \E c \in Containers : \E it \in Grabbed(c), x \in StartXs : ChipsOnStart(c, it, x)
  \/ \E c \in Containers : GridOnEnd(c, "drop")
  \/ \E c \in Containers : CarouselOnEnd(c, "drop")
  \/ \E c \in Containers : ChipsOnEnd(c, "drop")

SpecProcess == ProcessStart /\ [][NextProcess]_vars

\* Grids and card carousels with a host whose persistence callbacks may
\* throw.
NextFailing ==
  \/ HostFails
  \/ \E r \in Roots \ {"chipsHost"} : enableDragAndDrop(r) /\ UNCHANGED attachCalls
  \/ \E c \in Containers : \E it \in Grabbed(c), x \in StartXs : GridOnStart(c, it, x)
  \/ \E c \in Containers : \E it \in Grabbed(c), x \in StartXs : CarouselOnStart(c, it, x)
  \/ \E c \in Containers : \E j \in 1..Len(domOrder[c]) : LibrarySort(c, j)
  \/ \E c \in Containers, how \in Hows : GridOnEnd(c, how)
  \/ \E c \in Containers, how \in Hows : CarouselOnEnd(c, how)

SpecFailing == Init /\ [][NextFailing]_vars

\* Card carousel and chip row with pointer moves into and out of the edge
\* zones; one gesture at a time, ended by a drop.
NextScroll ==
  \/ \E r \in Roots \ {"room"} : enableDragAndDrop(r) /\ UNCHANGED attachCalls
  \/ \E c \in Containers : \E it \in Grabbed(c), x \in StartXs :
        Active = {} /\ CarouselOnStart(c, it, x)
  \/ \E c \in Containers : \E it \in Grabbed(c), x \in StartXs :
        Active = {} /\ ChipsOnStart(c, it, x)
  \/ \E x \in ScrollXs : PointerMove(x)
  \/ \E c \in Containers : AnimationFrame(c)
  \/ \E c \in Containers : CarouselOnEnd(c, "drop")
  \/ \E c \in Containers : ChipsOnEnd(c, "drop")

SpecScroll == Init /\ [][NextScroll]_vars

\* Card carousel and chip row with a pointer that moves only while no scroll
\* loop runs; the browser runs every animation frame that was requested.
NoLoop == \A c \in Containers : scroll[c].pendingFrames = 0

NextStill ==
  \/ \E r \in Roots \ {"room"} : enableDragAndDrop(r) /\ UNCHANGED attachCalls
  \/ \E c \in Containers : \E it \in Grabbed(c), x \in StartXs :
        Active = {} /\ CarouselOnStart(c, it, x)
  \/ \E c \in Containers : \E it \in Grabbed(c), x \in StartXs :
        Active = {} /\ ChipsOnStart(c, it, x)
  \/ \E x \in StillXs : NoLoop /\ PointerMove(x)
  \/ \E c \in Containers : AnimationFrame(c)
  \/ \E c \in Containers : CarouselOnEnd(c, "drop")
  \/ \E c \in Containers : ChipsOnEnd(c, "drop")

SpecStill ==
  Init /\ [][NextStill]_vars /\ WF_vars(\E c \in Containers : AnimationFrame(c))

\* The camera carousel with a first camera whose card renders anew between
\* and during drags.
NextCamera ==
  \/ enableDragAndDrop("page") /\ UNCHANGED attachCalls
  \/ \E r \in CameraRegions : CameraRenders(r)
  \/ \E c \in Containers : \E it \in Grabbed(c), x \in StartXs : CarouselOnStart(c, it, x)
  \/ \E c \in Containers : CarouselOnEnd(c, "drop")

SpecCamera == Init /\ [][NextCamera]_vars

\* The three services with listeners that may throw; the registry service
\* is given one hass and its requests succeed.
NextNotify ==
  \/ \E cb \in Callbacks : HostListens(cb)
  \/ \E cb \in Callbacks : HostStopsListening(cb)
  \/ \E cb \in Throwers : ListenerBreaks(cb)
  \/ \E k \in DashboardKeys : setDashboardActive(k)
  \/ setDashboardInactive
  \/ \E lang \in Languages : initialize(lang)
  \/ setHass(1)
  \/ \E t \in Tasks : SubscribeEventsSettles(t, TRUE)
  \/ \E t \in Tasks : InitializeHashesReturns(t)
  \/ \E u \in registrySubscriptionManager.subscriptions : handleRegistryEvent(u)
  \/ PendingUpdateFires

SpecNotify == Init /\ [][NextNotify]_vars

\* RegistrySubscriptionManager with a host that changes the hass, unsubscribes
\* and destroys while subscribe() calls are awaiting.
NextSubscription ==
  \/ addListener("registry", "a")
  \/ \E h \in Hasses : setHass(h)
  \/ \E t \in Tasks, ok \in BOOLEAN : SubscribeEventsSettles(t, ok)
  \/ \E t \in Tasks : InitializeHashesReturns(t)
  \/ \E u \in registrySubscriptionManager.subscriptions : handleRegistryEvent(u)
  \/ \E t \in Tasks, g \in RegistryNames : checkForChanges(t, g)
  \/ PendingUpdateFires
  \/ HostUnsubscribes
  \/ destroyRegistrySubscriptionManager

SpecSubscription == Init /\ [][NextSubscription]_vars

\* RegistrySubscriptionManager with a clock: registry events arrive on the
\* live subscriptions and the debounce timeouts fire when they are due.
NextDebounce ==
  \/ addListener("registry", "a")
  \/ setHass(1)
  \/ \E t \in Tasks : SubscribeEventsSettles(t, TRUE)
  \/ \E u \in registrySubscriptionManager.subscriptions :
       registrySubscriptionManager.now < MaxNow /\ handleRegistryEvent(u)
  \/ Tick
  \/ DueTimeoutFires

SpecDebounce == Init /\ [][NextDebounce]_vars

\* DashboardStateManager with a strategy that registers and unregisters
\* dashboards and a router that navigates.
NextNavigation ==
  \/ addListener("dashboard", "a")
  \/ \E k \in DashboardKeys : registerDashboard(k)
  \/ \E k \in DashboardKeys : unregisterDashboard(k)
  \/ \E path \in Paths : pushState(path)
  \/ DeferredNavigationChange
  \/ checkCurrentState

SpecNavigation == Init /\ [][NextNavigation]_vars

\* DashboardStateManager with a host that also sets the state itself and
\* destroys the manager.
NextDashboard ==
  \/ NextNavigation
  \/ \E k \in DashboardKeys : setDashboardActive(k)
  \/ setDashboardInactive
  \/ destroyDashboardStateManager

SpecDashboard == Init /\ [][NextDashboard]_vars

\* The hasses of a house whose light is absent, on or off, whose thermostat
\* is absent or reads one of two temperatures, and whose sensor comes and
\* goes.
ChipsHasses ==
  {HassWith(light, climate, sensor) :
     light \in {NoEntity, EntityState("on", 0), EntityState("off", 0)},
     climate \in {NoEntity, EntityState("heat", 1), EntityState("heat", 2)},
     sensor \in {NoEntity, EntityState("1", 0)}}

\* The chip orders the customization store is given.
SavedOrders ==
  {<<>>, <<"lighting">>, <<"lighting", "climate">>, <<"media", "lighting">>,
   <<"lighting", "lighting">>}

\* AppleChips with a host that configures it and assigns hasses, and a
\* store whose saved chip order changes.
NextChips ==
  \/ setConfig
  \/ \E newHass \in ChipsHasses : set_hass(newHass)
  \/ \E newOrder \in SavedOrders : saveChipsOrder(newOrder)
  \/ clearContainer

SpecChips == Init /\ [][NextChips]_vars

\* The hasses of a house that warms up: the thermostat reads what it read or
\* one degree more, the light is on or absent.
WarmingHasses ==
  LET reading == appleChips._hass.states[<<"climate", "b">>].current_temperature
  IN {HassWith(light, EntityState("heat", t), NoEntity) :
        light \in {NoEntity, EntityState("on", 0)},
        t \in {Max(reading, 1), Min(reading + 1, MaxTemperature)}}

\* AppleChips in a house that warms up.
NextStatusText ==
  \/ setConfig
  \/ \E newHass \in WarmingHasses : set_hass(newHass)
  \/ clearContainer

SpecStatusText == Init /\ [][NextStatusText]_vars

\* RegistrySubscriptionManager with registries that change and a host that
\* asks for a refresh.
NextPolling ==
  \/ addListener("registry", "a")
  \/ setHass(1)
  \/ \E g \in RegistryNames : \E l \in ListingsOf(g) : RegistryChanges(g, l)
  \/ forceRefresh
  \/ PendingUpdateFires

SpecPolling == Init /\ [][NextPolling]_vars

(***************************************************************************)
(* Properties.                                                             *)
(***************************************************************************)
\* Steps of the sensing library on container c.
StartStep(c) == session[c] = "idle" /\ session'[c] = "dragging"
FirstEndStep(c) == session[c] = "dragging" /\ session'[c] = "idle"
RepeatedEndStep(c) == endRepeats'[c] = endRepeats[c] + 1
EndStep(c) == FirstEndStep(c) \/ RepeatedEndStep(c)

\* A session on c has ended by exactly one onEnd and no new one has begun.
EndedOnce(c) == session[c] = "idle" /\ evtItem[c] # NoItem /\ endRepeats[c] = 0
Dropped(c) == EndedOnce(c) /\ ~cancelled[c]
Cancelled(c) == EndedOnce(c) /\ cancelled[c]

\* C1: every drag started by the library and completed by a drop (one onEnd)
\* has invoked the container's persistence path exactly once when the
\* session is idle again -- grid, carousel and chip row alike.
C1_DropPersistsExactlyOnce ==
  \A c \in Containers : Dropped(c) => saveCalls[c] = 1

\* The same statement for grids and card carousels only.
C1_GridAndCarouselPersistOnce ==
  \A c \in Containers : (Kind(c) # "chips" /\ Dropped(c)) => saveCalls[c] = 1

\* The library ends the session on c by cancelling / by dropping.
CancelStep(c) == FirstEndStep(c) /\ cancelled'[c]
DropStep(c) == FirstEndStep(c) /\ ~cancelled'[c]

\* C2: when a drag is cancelled (onEnd delivered with the item back at its
\* original position) the persistence callback is not invoked and the DOM
\* order is the order before the drag started.
C2_CancelNeverPersists ==
  [][ \A c \in Containers :
        CancelStep(c) => (saveCalls'[c] = 0 /\ domOrder'[c] = orderAtStart[c])
    ]_vars

\* The DOM-order half of C2 alone.
C2_CancelKeepsOrder ==
  [][ \A c \in Containers : CancelStep(c) => domOrder'[c] = orderAtStart[c] ]_vars

\* C3: chip row [climate, lights, security] as rendered by AppleChips;
\* security dragged to the front and dropped: the chip-order persistence
\* call receives exactly [security, climate, lights].
C3_ChipsSecurityToFront ==
  [][ ( /\ DropStep("chips")
        /\ evtItem["chips"] = "security"
        /\ orderAtStart["chips"] = <<"climate", "lights", "security">>
        /\ domOrder["chips"] = <<"security", "climate", "lights">> )
      => ( /\ lastSaved'["chips"].fn = "saveChipsOrder"
           /\ lastSaved'["chips"].order = <<"security", "climate", "lights">> )
    ]_vars

\* The identifier an item of a card carousel carries.
IdentifierOf(c, it) == "camera." \o it

\* C4: when a carousel drag has ended, the id list passed to
\* updateCarouselOrderWithContext is the sequence of identifiers of the
\* carousel's items in DOM order: same ids, same order, none duplicated,
\* none dropped.
C4_CarouselOrderMatchesDom ==
  \A c \in Containers :
    (Kind(c) = "carousel" /\ session[c] = "idle" /\ evtItem[c] # NoItem)
      => ( /\ lastSaved[c].fn = "updateCarouselOrderWithContext"
           /\ lastSaved[c].order =
                [i \in 1..Len(domOrder[c]) |-> IdentifierOf(c, domOrder[c][i])]
           /\ lastSaved[c].areaId = "living_room"
           /\ lastSaved[c].sectionType = "cameras" )

\* A carousel drag has ended by a drop that changed the order.
C4_Witness ==
  /\ Dropped("carousel")
  /\ domOrder["carousel"] = <<"cam2", "cam1">>
  /\ saveCalls["carousel"] = 1

\* C5: whenever no drag session is active on any container, isReordering is
\* false.
C5_IdleImpliesNotReordering == (Active = {}) => ~isReordering

\* The onEnd of a grid and of the chip row do reset the flag.
C5_GridAndChipsReset ==
  [][ \A c \in Containers :
        (Kind(c) # "carousel" /\ EndStep(c)) => ~isReordering' ]_vars

\* C6: whenever at least one drag session is active, isReordering is true,
\* also when two sessions overlap and one of them ends first.
C6_ActiveImpliesReordering == (Active # {}) => isReordering

\* C6 as amended: isReordering is true right after every onStart, and it
\* turns false only in a step in which some session's onEnd runs (last
\* writer wins: the flag may be false while another session is still
\* active).
C6_LastWriterWins ==
  [][ /\ \A c \in Containers : StartStep(c) => isReordering'
      /\ (isReordering /\ ~isReordering') => \E c \in Containers : EndStep(c)
    ]_vars

\* Two sessions overlapped, one ended first, and the flag is false while
\* the other is still active.
C6_Witness ==
  /\ session["carousel"] = "dragging"
  /\ Dropped("grid")
  /\ ~isReordering

\* C7: for grids and carousels, immediately after onStart every
\* .entity-controls of the container is hidden, and immediately after onEnd
\* every one is visible again, for drops and cancels alike.
C7_ControlsHiddenWhileDragging ==
  [][ \A c \in Containers : Kind(c) \in {"grid", "carousel"} =>
        /\ StartStep(c) => controlsHidden'[c] = Items(c)
        /\ FirstEndStep(c) => controlsHidden'[c] = {}
    ]_vars

\* A cancelled grid drag has ended while a carousel drag is in progress:
\* the grid's controls are visible, the carousel's are hidden.
C7_Witness ==
  /\ Cancelled("grid")
  /\ controlsHidden["grid"] = {}
  /\ session["carousel"] = "dragging"
  /\ controlsHidden["carousel"] = {"cam1", "cam2"}

\* C8: the number of drag-visual clone nodes attached to the document is 0
\* or 1, counted over all containers and manager instances.
C8_AtMostOneClone == CloneCount <= 1

\* The count of C8 per manager instance.
C8_AtMostOneClonePerManager ==
  \A m \in Managers :
    SumOver(bodyClones, {c \in Containers : Manager(c) = m}) <= 1

\* The state of the session on c that C9 names: its clone node, its
\* pointer-move listeners, its scroll velocity and frame loop.
SessionState(c) == <<bodyClones[c], listening[c], scroll[c]>>

\* C9: while sessions are active on two distinct containers, starting or
\* ending one of them changes nothing of the other session's state.
C9_SessionsIndependent ==
  [][ \A a \in Containers, b \in Containers :
        ( /\ a # b
          /\ session[b] = "dragging" /\ session'[b] = "dragging"
          /\ (StartStep(a) \/ EndStep(a)) )
        => SessionState(b)' = SessionState(b)
    ]_vars

\* C9 for two containers attached by different manager instances.
C9_IndependentAcrossManagers ==
  [][ \A a \in Containers, b \in Containers :
        ( /\ Manager(a) # Manager(b)
          /\ session[b] = "dragging" /\ session'[b] = "dragging"
          /\ (StartStep(a) \/ EndStep(a)) )
        => SessionState(b)' = SessionState(b)
    ]_vars

\* The session state of c is the one a finished session leaves.
Clean(c) ==
  /\ bodyClones[c] = 0
  /\ dragVisual[Manager(c)] = NoClone
  /\ ~listening[c]
  /\ scroll[c].speed = 0
  /\ scroll[c].scrollAnimationId = "null"
  /\ scroll[c].pendingFrames = 0
  /\ controlsHidden[c] = {}
  /\ draggingClass[c] = {}

\* C10: onEnd delivered a second time for the same session leaves the
\* session state as the first delivery left it: no clone node, no
\* pointer-move listeners, scroll velocity 0 with no frame pending,
\* controls visible, 'dragging' class absent.
C10_EndIsIdempotent ==
  [][ \A c \in Containers :
        /\ FirstEndStep(c) => Clean(c)'
        /\ RepeatedEndStep(c) => Clean(c)'
    ]_vars

\* onEnd was delivered twice for a carousel session that had been
\* auto-scrolling.
C10_Witness ==
  /\ session["carousel"] = "idle"
  /\ endRepeats["carousel"] = 1
  /\ scroll["carousel"].scrollLeft > 0
  /\ Clean("carousel")

\* C11: the persistence callback is invoked at most once per drag (counted
\* from the drag's onStart), also when the library delivers onEnd more than
\* once for that drag.
C11_AtMostOncePerDrag == \A c \in Containers : saveCalls[c] <= 1

\* A drag whose onEnd was delivered once has invoked the callback at most
\* once.
C11_OncePerDelivery ==
  \A c \in Containers : saveCalls[c] <= 1 + endRepeats[c]

\* The persistence callback was invoked in this step and threw.
CallbackThrew(c) == saveCalls'[c] > saveCalls[c] /\ lastSaved'[c].threw

\* C12: when the host persistence callback throws during onEnd, the
\* exception leaves onEnd and the callback is not invoked again; the
\* container stays attached, the DOM order is the one the library left, the
\* session is cleaned up; and a drag that follows on the same container
\* starts, ends and invokes the callback as usual.
C12_ThrowLeavesStateIntact ==
  [][ \A c \in Containers :
        /\ (EndStep(c) /\ CallbackThrew(c)) =>
              /\ escapes'[c] = escapes[c] + 1
              /\ saveCalls'[c] = saveCalls[c] + 1
              /\ sortableInstances'[c] = sortableInstances[c]
              /\ liveInstances'[c] = {sortableInstances[c]}
              /\ domOrder'[c] = (IF CancelStep(c) THEN orderAtStart[c] ELSE domOrder[c])
              /\ Clean(c)'
        /\ (escapes[c] > 0 /\ StartStep(c)) =>
              /\ isReordering'
              /\ draggingClass'[c] = {evtItem'[c]}
              /\ bodyClones'[c] = 1
              /\ listening'[c]
        /\ (escapes[c] > 0 /\ FirstEndStep(c)) =>
              /\ saveCalls'[c] = 1
              /\ lastSaved'[c].fn # "none"
              /\ Clean(c)'
    ]_vars

\* The callback threw at the end of a grid drag; the drag that followed on
\* the grid was dropped with a new order and invoked the callback once,
\* without a throw.
C12_Witness ==
  /\ escapes["grid"] = 1
  /\ Dropped("grid")
  /\ domOrder["grid"] # RenderedOrder("grid")
  /\ saveCalls["grid"] = 1
  /\ ~lastSaved["grid"].threw

\* C13: after every registry call each container has at most one live
\* Sortable instance and sortableInstances maps the container to exactly
\* that instance (no entry when there is none); this holds in particular when
\* an already attached root is attached again.
C13_OneLiveInstance ==
  \A c \in Containers :
    /\ Cardinality(liveInstances[c]) <= 1
    /\ liveInstances[c] =
         (IF sortableInstances[c] = NoInstance THEN {} ELSE {sortableInstances[c]})

\* The room root was attached twice without a detach in between.
C13_Witness ==
  /\ attachCalls["room"] = 2
  /\ liveInstances["grid"] = {sortableInstances["grid"]}

\* The regions enableDragAndDrop(r) attaches.
AttachedBy(r) == GridContainers(r) \cup CarouselContainers(r) \cup ChipsContainers(r)

\* C14: once disableDragAndDrop(root) has returned (and the root was not
\* attached again), no region under root that enableDragAndDrop(root)
\* attaches has a live Sortable instance or an entry in sortableInstances.
C14_DetachReleasesAll ==
  \A r \in Roots : attachCalls[r] = 0 =>
    \A c \in AttachedBy(r) :
      liveInstances[c] = {} /\ sortableInstances[c] = NoInstance

\* C14 for grids and card carousels.
C14_DetachReleasesCards ==
  \A r \in Roots : attachCalls[r] = 0 =>
    \A c \in AttachedBy(r) : Kind(c) # "chips" =>
      liveInstances[c] = {} /\ sortableInstances[c] = NoInstance

\* C15: once a manager has been constructed the document holds exactly one
\* style#sortable-drag-styles element, however many managers are
\* constructed and however many containers are attached.
C15_StylesInjectedOnce ==
  /\ (constructed # {}) => styleNodes = 1
  /\ (constructed = {}) => styleNodes = 0
  /\ globalStylesInjected <=> styleNodes > 0

\* Both managers are constructed and every container is attached.
C15_Witness ==
  /\ constructed = Managers
  /\ \A c \in Containers : liveInstances[c] # {}
  /\ styleNodes = 1

\* The edge zones of the scroll container of c, and the sessions whose
\* onMove is registered and drives a scroll controller.
ScrollZone(c) == IF Kind(c) = "carousel" THEN CarouselScrollZone ELSE ChipsScrollZone
InLeftZone(c, x) == x - RectLeft >= 0 /\ x - RectLeft < ScrollZone(c)
InRightZone(c, x) == RectRight - x >= 0 /\ RectRight - x < ScrollZone(c)
Scrollers == {c \in Containers : Kind(c) # "grid" /\ listening[c]}

\* C16: for carousel and chip-row sessions, after a pointer move whose x
\* lies outside both edge zones the stored auto-scroll velocity is 0.
C16_ZeroOutsideZones ==
  [][ \A x \in ScrollXs : PointerMove(x) =>
        \A c \in Scrollers :
          (~InLeftZone(c, x) /\ ~InRightZone(c, x)) => scroll'[c].speed = 0
    ]_vars

\* During a chip drag the pointer went into an edge zone and came back out
\* before the frame requested meanwhile ran.
C16_Witness ==
  /\ session["chips"] = "dragging"
  /\ observed["chips"] # {}
  /\ cloneX[Manager("chips")] = 150
  /\ scroll["chips"].speed = 0
  /\ scroll["chips"].scrollAnimationId = "frame"

\* C17: after a pointer move into the left edge zone the stored velocity is
\* strictly negative, after a pointer move into the right edge zone it is
\* strictly positive.
C17_SignInZones ==
  [][ \A x \in ScrollXs : PointerMove(x) =>
        \A c \in Scrollers :
          /\ InLeftZone(c, x) => scroll'[c].speed < 0
          /\ InRightZone(c, x) => scroll'[c].speed > 0
    ]_vars

\* C17 as amended (scroll container wider than two edge zones): the sign is
\* as claimed when the container can still scroll towards that boundary
\* (scrollLeft > 0 for the left zone, scrollLeft < maxScroll for the right
\* zone); when it cannot, the velocity stored is 0.
C17_SignWhereScrollable ==
  [][ \A x \in ScrollXs : PointerMove(x) =>
        \A c \in Scrollers :
          /\ (InLeftZone(c, x) /\ scroll[c].scrollLeft > 0) => scroll'[c].speed < 0
          /\ (InRightZone(c, x) /\ scroll[c].scrollLeft < MaxScroll) => scroll'[c].speed > 0
          /\ (InLeftZone(c, x) /\ scroll[c].scrollLeft = 0) => scroll'[c].speed = 0
          /\ (InRightZone(c, x) /\ scroll[c].scrollLeft = MaxScroll) => scroll'[c].speed = 0
    ]_vars

\* A carousel that was scrolled to its end, with the pointer in the left
\* edge zone: the velocity is negative.
C17_Witness ==
  /\ session["carousel"] = "dragging"
  /\ cloneX[Manager("carousel")] = 10
  /\ scroll["carousel"].scrollLeft = MaxScroll
  /\ scroll["carousel"].speed < 0

\* Of two recorded positions (both in the right edge zone), p is closer to
\* the boundary than q.
Closer(p, q) == RectRight - p[1] < RectRight - q[1]

C18_MonotoneStoredWhileScrollable ==
  \A c \in Containers : \A p \in observed[c], q \in observed[c] :
    (Closer(p, q) /\ p[3] > 0 /\ q[3] > 0) => p[2] >= q[2]

C19_LeavingZoneStopsLoop ==
  \A c \in Scrollers : scroll[c].scrollAnimationId = "frame" =>
    \A x \in ScrollXs : (~InLeftZone(c, x) /\ ~InRightZone(c, x)) =>
      LET moved == onMoveScroll(c, scroll[c], x)
          frame == FrameStep(c, moved)
      IN /\ moved.speed = 0
         /\ moved.pendingFrames = 1
         /\ frame.scrollLeft = moved.scrollLeft
         /\ frame.pendingFrames = 0
         /\ frame.scrollAnimationId = "null"

\* The pointer entered the right edge zone of the carousel and left it
\* before the frame requested ran; that frame then stopped the loop without
\* scrolling.
C19_Witness ==
  /\ session["carousel"] = "dragging"
  /\ observed["carousel"] # {}
  /\ cloneX[Manager("carousel")] = 150
  /\ scroll["carousel"].scrollLeft = 0
  /\ scroll["carousel"].speed = 0
  /\ scroll["carousel"].scrollAnimationId = "null"
  /\ scroll["carousel"].pendingFrames = 0

\* C20: a carousel or chip row has at most one animation-frame callback
\* pending, scrollAnimationId is non-null exactly when one is pending, and a
\* pointer move requests no frame while one is pending -- for every
\* interleaving of pointer moves, frames, session ends and re-attachment.
C20_OneFramePending ==
  [][ \A c \in Containers : Kind(c) # "grid" =>
        /\ scroll'[c].pendingFrames <= 1
        /\ (scroll'[c].scrollAnimationId # "null") <=> (scroll'[c].pendingFrames = 1)
        /\ \A x \in ScrollXs :
             (PointerMove(x) /\ scroll[c].pendingFrames > 0)
             => scroll'[c].pendingFrames = scroll[c].pendingFrames
    ]_vars

\* Two pointer moves into the right edge zone reached the chip row while
\* its first frame was still pending.
C20_Witness ==
  /\ Cardinality(observed["chips"]) = 2
  /\ scroll["chips"].scrollLeft = 0
  /\ scroll["chips"].speed > 0
  /\ scroll["chips"].pendingFrames = 1

\* A step in which service by changes the state it notifies about.
Notifies(by) ==
  CASE by = "dashboard" -> dashboardStateManager' # dashboardStateManager
    [] by = "rtl" -> rtlHelper' # rtlHelper /\ rtlHelper.isRTL # "null"
    [] by = "registry" ->
         /\ registrySubscriptionManager.pendingUpdate # "null"
         /\ registrySubscriptionManager'.pendingUpdate = "null"

\* What the listeners of service by are told after such a step.
NotifiedArgs(by) ==
  CASE by = "dashboard" ->
         <<IF dashboardStateManager'.isActive THEN "true" ELSE "false",
           dashboardStateManager'.currentDashboardKey>>
    [] by = "rtl" -> <<rtlHelper'.isRTL, rtlHelper'.currentLanguage>>
    [] by = "registry" -> <<registrySubscriptionManager.pendingUpdate>>

ThrowingAmong(ls) == Cardinality({i \in 1..Len(ls) : ls[i] \in throwing})

\* C21: when a service notifies and listeners throw, no exception leaves
\* notifyListeners, every registered listener is called once in
\* registration order with the new state (which is in place), and one error
\* is logged per throwing listener.
C21_ThrowingListenerIsContained ==
  [][ \A by \in Notifiers : Notifies(by) =>
        heard' = [by |-> by,
                  args |-> NotifiedArgs(by),
                  called |-> listeners[by],
                  errors |-> ThrowingAmong(listeners[by]),
                  escaped |-> FALSE] ]_vars

\* The registry service notified two listeners of which the first threw.
C21_Witness ==
  /\ heard.by = "registry"
  /\ heard.called = <<"b", "a">>
  /\ heard.errors = 1
  /\ registrySubscriptionManager.pendingUpdate = "null"
\* No subscribe() call of the registry service is awaiting.
Settled ==
  \A t \in Tasks : registrySubscriptionManager.calls[t].pc \in {"unused", "done"}

LiveOn(g) == {u \in registrySubscriptionManager.subscriptions : u[2] = g}

\* C29: once the subscribe() calls started by a sequence of setHass calls
\* have run to their end, each registry has at most one live subscription,
\* there is at most one polling interval, and every live subscription is on
\* the current hass.
C29_OneSubscriptionPerRegistry ==
  (registrySubscriptionManager.phase = "setHass" /\ Settled) =>
    /\ \A g \in RegistryNames : Cardinality(LiveOn(g)) <= 1
    /\ Cardinality(registrySubscriptionManager.intervals) <= 1
    /\ \A u \in registrySubscriptionManager.subscriptions :
         u[3] = registrySubscriptionManager.hass

\* The part of C29 about the polling fallback: never two live intervals,
\* and the live one is the one the field refers to.
C29_OnePollingInterval ==
  /\ Cardinality(registrySubscriptionManager.intervals) <= 1
  /\ \A t \in registrySubscriptionManager.intervals :
       registrySubscriptionManager.pollingInterval = t

\* C30: after the host called unsubscribe() or destroy(), and until it
\* calls setHass again, no subscription and no polling interval is live.
C30_NothingLiveAfterRelease ==
  registrySubscriptionManager.phase \in {"unsubscribe", "destroy"} =>
    /\ registrySubscriptionManager.subscriptions = {}
    /\ registrySubscriptionManager.intervals = {}

\* The part of C30 about listeners: after destroy() a notification calls
\* no listener.
C30_NoListenerAfterDestroy ==
  [][ (registrySubscriptionManager.phase = "destroy" /\ heard' # heard) =>
        heard'.called = <<>> ]_vars
ShowsSnapshot(r) ==
  r.cameraContainer /\ \E i \in 1..Len(r.images) :
    ~r.images[i].opacity0 /\ r.images[i].src # ""

\* The visible images of region r that have a source, as sources.
VisibleSrcs(r) ==
  {r.images[i].src : i \in {j \in 1..Len(r.images) :
                              ~r.images[j].opacity0 /\ r.images[j].src # ""}}

AtExtreme(s) ==
  (s.speed < 0 /\ s.scrollLeft <= 0) \/ (s.speed > 0 /\ s.scrollLeft >= MaxScroll)

\* C24: with the pointer at rest in an edge zone, every frame step with a
\* velocity either moves the scroll position towards the end the velocity
\* points to and requests the next frame, or, at that end, sets the
\* velocity to 0, leaves the position and requests nothing; and every loop
\* that was started comes to an end.
C24_LoopTerminates ==
  /\ [][ \A c \in Containers :
           (AnimationFrame(c) /\ scroll[c].speed # 0) =>
             IF AtExtreme(scroll[c])
               THEN /\ scroll'[c].speed = 0
                    /\ scroll'[c].scrollLeft = scroll[c].scrollLeft
                    /\ scroll'[c].pendingFrames = 0
                    /\ scroll'[c].scrollAnimationId = "null"
               ELSE /\ scroll'[c].speed = scroll[c].speed
                    /\ scroll[c].speed > 0 => scroll'[c].scrollLeft > scroll[c].scrollLeft
                    /\ scroll[c].speed < 0 => scroll'[c].scrollLeft < scroll[c].scrollLeft
                    /\ scroll'[c].pendingFrames = 1 ]_vars
  /\ \A c \in Containers :
       (scroll[c].pendingFrames > 0) ~> (scroll[c].pendingFrames = 0)

\* A loop of the carousel ran into the right end in more than one step and
\* stopped there while the drag goes on.
C24_Witness ==
  /\ session["carousel"] = "dragging"
  /\ cloneX[Manager("carousel")] = 250
  /\ scroll["carousel"].scrollLeft = MaxScroll
  /\ scroll["carousel"].speed = 0
  /\ scroll["carousel"].scrollAnimationId = "null"
  /\ scroll["carousel"].pendingFrames = 0
\* zone * (min + (1 - d/zone) * (max - min)), in 1/Scale px.
LinearSpeedTimesZone(d, zone, maxSpeed, minSpeed) ==
  Scale * (minSpeed * zone + (zone - d) * (maxSpeed - minSpeed))

\* The speed the claim gives container c at distance d, times its zone.
ClaimedSpeedTimesZone(c, d) ==
  IF Kind(c) = "carousel" THEN LinearSpeedTimesZone(d, 100, 15, 3)
  ELSE LinearSpeedTimesZone(d, 80, 12, 2)

C26_CleanupBeforeCallback ==
  \A c \in Containers : lastSaved[c].fn # "none" => lastSaved[c].page = NoPage

\* The carousel's callback was invoked for a session during which the
\* carousel auto-scrolled.
C26_Witness ==
  /\ lastSaved["carousel"].fn = "updateCarouselOrderWithContext"
  /\ lastSaved["carousel"].page = NoPage
  /\ scroll["carousel"].scrollLeft > 0
  /\ session["carousel"] = "idle"
\* C27: while a session is in progress on a container, the host has received
\* no persistence call from that container since the session's onStart,
\* whatever pointer moves and sibling swaps have occurred.
C27_NoCommitWhileDragging ==
  \A c \in Containers :
    session[c] = "dragging" => (saveCalls[c] = 0 /\ lastSaved[c] = NoCall)

\* A grid session in which the dragged tile has changed places and the
\* pointer has moved, with nothing persisted.
C27_Witness ==
  /\ session["grid"] = "dragging"
  /\ domOrder["grid"] # orderAtStart["grid"]
  /\ cloneX[Manager("grid")] = 300
  /\ saveCalls["grid"] = 0
C31_DebouncedNotification ==
  /\ [](Cardinality(registrySubscriptionManager.timers) <= 1)
  /\ [](registrySubscriptionManager.timers # {}
          <=> registrySubscriptionManager.lastEvent # NoEvent)
  /\ [][ Cardinality(registrySubscriptionManager'.timers)
             < Cardinality(registrySubscriptionManager.timers) =>
           /\ registrySubscriptionManager.lastEvent # NoEvent
           /\ heard'.by = "registry"
           /\ heard'.args = <<registrySubscriptionManager.lastEvent.type>>
           /\ registrySubscriptionManager.now =
                registrySubscriptionManager.lastEvent.at + DebounceMs
           /\ registrySubscriptionManager'.timers = {}
       ]_vars

\* An entity event was followed within the debounce time by an area event,
\* and the listener was notified of the area event.
C31_Witness ==
  /\ heard.by = "registry"
  /\ heard.args = <<"area">>
  /\ heard.called = <<"a">>
  /\ registrySubscriptionManager.now = TickMs + DebounceMs
  /\ registrySubscriptionManager.timers = {}
\* The manager with no update pending.
NothingPending(s) ==
  [s EXCEPT !.pendingUpdate = "null", !.timers = {}, !.lastEvent = NoEvent]

\* The listings that hold the entries of listing l, in any order.
Reordered(g, l) == {m \in ListingsOf(g) : Range(m) = Range(l)}

\* C32: with a hass set and no update pending, a check on the listings the
\* registries return schedules an update exactly when the hash of at least
\* one listing differs from the stored one, for the first changed registry
\* in the order entity, device, area; a check repeated at once on the same
\* listings, or on listings holding the same entries in another order,
\* schedules nothing.
C32_CheckForChanges ==
  LET s == NothingPending(registrySubscriptionManager)
      fetched == s.listings
      r == compareHashes(s, fetched)
      differs(g) == createHash(fetched[g]) # s.lastHash[g]
  IN s.hass # NoHass =>
       /\ (r.pendingUpdate # "null") <=> (\E g \in RegistryNames : differs(g))
       /\ differs("entity") => r.pendingUpdate = "entity"
       /\ (~differs("entity") /\ differs("device")) => r.pendingUpdate = "device"
       /\ (~differs("entity") /\ ~differs("device") /\ differs("area"))
            => r.pendingUpdate = "area"
       /\ \A g \in RegistryNames : \A l \in Reordered(g, fetched[g]) :
            compareHashes(NothingPending(r), [fetched EXCEPT ![g] = l])
              = NothingPending(r)

\* The listeners heard of an entity change, the hash of the two entities is
\* stored, and the registry now lists them the other way round.
C32_Witness ==
  /\ heard.args = <<"entity">>
  /\ registrySubscriptionManager.hass # NoHass
  /\ registrySubscriptionManager.pendingUpdate = "null"
  /\ Len(registrySubscriptionManager.listings["entity"]) = 2
  /\ registrySubscriptionManager.listings["entity"][1].id = "b"
  /\ registrySubscriptionManager.lastHash["entity"] =
       createHash(registrySubscriptionManager.listings["entity"])
\* The pair (isActive, currentDashboardKey) of manager m.
StatePair(m) == <<m.isActive, m.currentDashboardKey>>

\* C33 for the two setters: called in any reachable state,
\* setDashboardActive(k) and setDashboardInactive() notify exactly when they
\* change the pair (isActive, currentDashboardKey).
C33_SettersNotifyOnChange ==
  LET m == Instance("host") IN
  /\ \A k \in DashboardKeys :
       (setActive(m, k).emit # <<>>) <=> (StatePair(setActive(m, k)) # StatePair(m))
  /\ (setInactive(m).emit # <<>>) <=> (StatePair(setInactive(m)) # StatePair(m))

\* C33: no notifyListeners call of DashboardStateManager carries the
\* (isActive, key) of the call before it.
C33_NoRepeatedNotification == ~dashboardStateManager.repeated
\* The first segment of the current path is a registered dashboard key that
\* is not an excluded core page.
OnRegisteredDashboard(m) ==
  /\ m.pathname # <<>>
  /\ m.pathname[1] \in m.registeredDashboardKeys
  /\ m.pathname[1] \notin excludedKeys

\* C34: when handleNavigationChange() (or checkCurrentState()) has just
\* returned, the manager is active exactly when the current path is on a
\* registered dashboard, and its key is then the first segment of the path.
C34_StateFollowsPath ==
  dashboardStateManager.checked =>
    /\ dashboardStateManager.isActive <=> OnRegisteredDashboard(dashboardStateManager)
    /\ dashboardStateManager.isActive =>
         dashboardStateManager.currentDashboardKey = dashboardStateManager.pathname[1]

\* C38: in every reachable state the manager is active exactly when it has
\* a current dashboard key, whatever sequence of registerDashboard,
\* unregisterDashboard, setDashboardActive, setDashboardInactive,
\* handleNavigationChange and destroy led there.
C38_ActiveIffKey ==
  dashboardStateManager.isActive <=>
    dashboardStateManager.currentDashboardKey # "null"

\* The manager went active and was deactivated again, by every way the
\* code has: a notification of (false, null) was the last one.
C38_Witness ==
  /\ ~dashboardStateManager.isActive
  /\ dashboardStateManager.currentDashboardKey = "null"
  /\ dashboardStateManager.lastNotified = <<"false", "null">>
  /\ dashboardStateManager.instance


\* C39: with registerDashboard, unregisterDashboard and
\* handleNavigationChange alone, the current dashboard key is null or a
\* registered key; a step that unregisters the active key leaves the
\* manager inactive and notifies once, with (false, null).
C39_KeyIsRegistered ==
  /\ [](\/ dashboardStateManager.currentDashboardKey = "null"
        \/ dashboardStateManager.currentDashboardKey \in
             dashboardStateManager.registeredDashboardKeys)
  /\ [][\A k \in DashboardKeys :
          (/\ dashboardStateManager.currentDashboardKey = k
           /\ k \in dashboardStateManager.registeredDashboardKeys
           /\ dashboardStateManager'.registeredDashboardKeys =
                dashboardStateManager.registeredDashboardKeys \ {k})
          => /\ ~dashboardStateManager'.isActive
             /\ dashboardStateManager'.currentDashboardKey = "null"
             /\ dashboardStateManager'.lastNotified = <<"false", "null">>
             /\ ~dashboardStateManager'.repeated
             /\ heard' # heard
             /\ heard'.by = "dashboard"
             /\ heard'.args = <<"false", "null">>]_vars

\* The dashboard the location is on was active and has been unregistered
\* before any navigation was handled.
C39_Witness ==
  /\ dashboardStateManager.pathname = <<"tablet">>
  /\ "tablet" \notin dashboardStateManager.registeredDashboardKeys
  /\ dashboardStateManager.lastProcessedPath = NeverProcessed
  /\ ~dashboardStateManager.isActive
  /\ dashboardStateManager.lastNotified = <<"false", "null">>
  /\ heard.args = <<"false", "null">>


\* history.pushState carries at most one wrapper, whatever getInstance()
\* and destroy() calls were made.
WrappedOnce == dashboardStateManager.wraps <= 1

\* A pushState call defers exactly one handleNavigationChange().
OneCallPerPushState ==
  [][dashboardStateManager'.pathname # dashboardStateManager.pathname
       => dashboardStateManager'.deferred = dashboardStateManager.deferred + 1]_vars

\* An instance that exists was constructed by a getInstance() call of the
\* host.
InstanceIsTheHosts ==
  dashboardStateManager.instance => dashboardStateManager.createdBy = "host"

\* C40: history.pushState is wrapped at most once across getInstance() and
\* destroy() calls, one pushState call leads to exactly one deferred
\* handleNavigationChange, and after destroy() there is no instance until
\* the host calls getInstance() again.
C40_WrappedOnceAndDestroyed ==
  /\ []WrappedOnce
  /\ OneCallPerPushState
  /\ []InstanceIsTheHosts


\* The chips updateChipData builds from the hass the component holds, before
\* it orders them.
BuiltChips == pushChips([appleChips EXCEPT !.chips = <<>>], 1).chips

Occurrences(seq, x) == Cardinality({i \in 1..Len(seq) : seq[i] = x})

\* C35: applySavedChipsOrder returns a permutation of the chips it is given,
\* whatever the saved order: every chip once and none added, the chips
\* whose group is in the saved order first and in its sequence, the others
\* after them in their original order.
C35_SavedOrderPermutes ==
  LET chips == BuiltChips
      savedOrder == appleChips.savedOrder
      orderedChips == applySavedChipsOrder(chips, savedOrder)
      saved(chip) == chip.group \in Range(savedOrder)
      others(chip) == chip.group \notin Range(savedOrder)
      first == SelectSeq(orderedChips, saved)
      position(chip) == CHOOSE j \in 1..Len(savedOrder) : savedOrder[j] = chip.group
  IN /\ \A chip \in Range(chips) \cup Range(orderedChips) :
          Occurrences(orderedChips, chip) = Occurrences(chips, chip)
     /\ orderedChips = first \o SelectSeq(chips, others)
     /\ \A i, j \in 1..Len(first) :
          i < j => position(first[i]) < position(first[j])

\* The relevant entities of a states object, and what the claim calls a
\* change between two of them.
RelevantIds(states) ==
  {id \in Range(ChipEntityIds) :
     /\ states[id] # NoEntity
     /\ id[1] \in relevantDomains \/ isWaterEntity(id, states)}

AddedRemovedOrChanged(old, new) ==
  \E id \in RelevantIds(old) \cup RelevantIds(new) :
    \/ old[id] = NoEntity /\ new[id] # NoEntity
    \/ old[id] # NoEntity /\ new[id] = NoEntity
    \/ old[id] # NoEntity /\ new[id] # NoEntity /\ old[id].state # new[id].state

\* C36: when a configured component that holds a hass is assigned another,
\* it calls render() if a relevant entity was added, was removed or changed
\* state, and it does not if the relevant entities are the same in both.
C36_RelevantChangesRender ==
  [][(/\ appleChips.config
      /\ appleChips._hass.set
      /\ appleChips'._hass # appleChips._hass)
     => /\ AddedRemovedOrChanged(appleChips._hass.states, appleChips'._hass.states)
             => appleChips'.rendered
        /\ (\A id \in RelevantIds(appleChips._hass.states)
                       \cup RelevantIds(appleChips'._hass.states) :
               appleChips._hass.states[id] = appleChips'._hass.states[id])
             => ~appleChips'.rendered]_vars

\* C37: statusTextCache never holds more than 20 entries, and the entries a
\* getGroupStatusText call leaves in it are the newest of those it found,
\* in their order, followed by the ones it added.
C37_CacheKeepsLastTwenty ==
  /\ [](Len(appleChips.statusTextCache) <= CacheLimit)
  /\ [][(/\ appleChips'.statusTextCache # appleChips.statusTextCache
          /\ appleChips'.statusTextCache # <<>>)
         => \E k \in 0..Len(appleChips.statusTextCache) :
              /\ Len(appleChips'.statusTextCache) >=
                   Len(appleChips.statusTextCache) - k
              /\ SubSeq(appleChips'.statusTextCache, 1,
                        Len(appleChips.statusTextCache) - k) =
                   SubSeq(appleChips.statusTextCache, k + 1,
                          Len(appleChips.statusTextCache))
              /\ k > 0 => Len(appleChips'.statusTextCache) >= CacheLimit]_vars

====
